---- MODULE Spec2Model ----
(***************************************************************************)
(* Document tree (HTMLNode, HTMLDocument), the five reversible edit        *)
(* commands and the undo/redo controller (Editor) of the HTML editor.      *)
(*                                                                         *)
(* Python objects are modelled as a heap: a node is a handle (an index     *)
(* into the sequence d.node), None is the handle Null.  A document is a    *)
(* record [node, root, id_map, modified]; a command is a record holding    *)
(* its constructor arguments and the state it captures for undo.           *)
(***************************************************************************)
EXTENDS Integers, Sequences, FiniteSets, TLC

\* ------------------------------------------------------------------ bounds
\* HTMLNode objects the commands of one run may construct and attach
MaxAllocs == 2
\* command objects constructed in one run
MaxCmds == 3
\* calls made directly on one HTMLDocument, or on command objects
MaxCalls == 3
\* command objects whose execute() and undo() are called directly
MaxInstances == 1

\* ------------------------------------------------------------- basic values
Null == 0
\* Python None where a str is expected (Optional[str])
NoId == "<None>"
NoText == "<None:text>"

REQUIRED_TAGS == {"html", "head", "title", "body"}

\* str.lower() on the tag names the model uses
Lower(tag) ==
    CASE tag = "BODY" -> "body"
      [] tag = "P" -> "p"
      [] OTHER -> tag

\* Python truthiness of an Optional[str]: None and "" are falsy
Truthy(s) == s # NoId /\ s # ""

\* ------------------------------------------------------------------ HTMLNode
\* HTMLNode.__init__ that tests the tag as given, without lower-casing it
NewNode_NoLower(tag, id_, text) ==
    IF tag \in REQUIRED_TAGS
    THEN [ok |-> TRUE,
          n |-> [tag |-> Lower(tag), id |-> (IF Truthy(id_) THEN id_ ELSE Lower(tag)),
                 text |-> text, parent |-> Null, children |-> <<>>]]
    ELSE IF ~Truthy(id_)
    THEN [ok |-> FALSE,
          n |-> [tag |-> Lower(tag), id |-> "", text |-> text, parent |-> Null,
                 children |-> <<>>]]
    ELSE [ok |-> TRUE,
          n |-> [tag |-> Lower(tag), id |-> id_, text |-> text, parent |-> Null,
                 children |-> <<>>]]

\* HTMLNode.__init__: ok = FALSE stands for InvalidNodeError
NewNode(tag, id_, text) ==
    LET t == Lower(tag) IN
    IF t \in REQUIRED_TAGS
    THEN [ok |-> TRUE,
          n |-> [tag |-> t, id |-> (IF Truthy(id_) THEN id_ ELSE t),
                 text |-> text, parent |-> Null, children |-> <<>>]]
    ELSE IF ~Truthy(id_)
    THEN [ok |-> FALSE,
          n |-> [tag |-> t, id |-> "", text |-> text, parent |-> Null, children |-> <<>>]]
    ELSE [ok |-> TRUE,
          n |-> [tag |-> t, id |-> id_, text |-> text, parent |-> Null, children |-> <<>>]]

\* list.index(x): position of the first occurrence, 0 when absent (ValueError)
IndexOf(s, x) ==
    IF \E i \in 1..Len(s) : s[i] = x
    THEN CHOOSE i \in 1..Len(s) : s[i] = x /\ \A j \in 1..(i - 1) : s[j] # x
    ELSE 0

\* list.remove(x): drops the first occurrence
RemoveFirst(s, x) ==
    LET i == IndexOf(s, x) IN
    IF i = 0 THEN s ELSE SubSeq(s, 1, i - 1) \o SubSeq(s, i + 1, Len(s))

\* list.insert(i, x) with a 1-based position i
InsertAt(s, i, x) == SubSeq(s, 1, i - 1) \o <<x>> \o SubSeq(s, i, Len(s))

\* HTMLNode.remove_child on the heap
remove_child(heap, p, c) ==
    IF IndexOf(heap[p].children, c) # 0
    THEN [heap EXCEPT ![p].children = RemoveFirst(@, c), ![c].parent = Null]
    ELSE heap

\* HTMLNode.add_child on the heap
add_child(heap, p, c) ==
    LET h1 == IF heap[c].parent # Null THEN remove_child(heap, heap[c].parent, c) ELSE heap
    IN [h1 EXCEPT ![c].parent = p, ![p].children = Append(@, c)]

\* nodes of the subtree rooted at h, following children lists (fuel stops a cycle)
RECURSIVE Sub(_, _, _)
Sub(heap, h, fuel) ==
    IF fuel = 0 THEN {h}
    ELSE {h} \cup UNION {Sub(heap, heap[h].children[i], fuel - 1) :
                            i \in 1..Len(heap[h].children)}

SubtreeNodes(heap, h) == Sub(heap, h, Len(heap))

\* HTMLNode.validate: FALSE stands for InvalidNodeError
node_validate(heap, h) ==
    \A x \in SubtreeNodes(heap, h) :
        ~(heap[x].tag \notin REQUIRED_TAGS /\ ~Truthy(heap[x].id))

\* HTMLNode.find_by_id: depth-first pre-order, first match or Null
RECURSIVE FindIn(_, _, _, _)
RECURSIVE FindList(_, _, _, _, _)
FindIn(heap, h, id_, fuel) ==
    IF heap[h].id = id_ THEN h
    ELSE IF fuel = 0 THEN Null
    ELSE FindList(heap, heap[h].children, 1, id_, fuel - 1)
FindList(heap, kids, i, id_, fuel) ==
    IF i > Len(kids) THEN Null
    ELSE LET r == FindIn(heap, kids[i], id_, fuel) IN
         IF r # Null THEN r ELSE FindList(heap, kids, i + 1, id_, fuel)

find_by_id(heap, h, id_) == FindIn(heap, h, id_, Len(heap))

\* ---------------------------------------------------------------- HTMLDocument
\* dict.get
get_node_by_id(d, id_) == IF id_ \in DOMAIN d.id_map THEN d.id_map[id_] ELSE Null

\* dict[k] = v
MapPut(m, k, v) == [x \in (DOMAIN m) \cup {k} |-> IF x = k THEN v ELSE m[x]]

\* dict.pop(k, None) for every k of ks
MapDrop(m, ks) == [x \in (DOMAIN m) \ ks |-> m[x]]

\* pre-order list of the nodes of the subtree rooted at h
RECURSIVE PreOrder(_, _, _)
RECURSIVE PreOrderList(_, _, _, _)
PreOrder(heap, h, fuel) ==
    IF fuel = 0 THEN <<h>>
    ELSE <<h>> \o PreOrderList(heap, heap[h].children, 1, fuel - 1)
PreOrderList(heap, kids, i, fuel) ==
    IF i > Len(kids) THEN <<>>
    ELSE PreOrder(heap, kids[i], fuel) \o PreOrderList(heap, kids, i + 1, fuel)

\* HTMLDocument._build_id_map over the pre-order list: ok = FALSE is DuplicateIdError
RECURSIVE BuildFrom(_, _, _, _)
BuildFrom(heap, order, i, m) ==
    IF i > Len(order) THEN [ok |-> TRUE, m |-> m]
    ELSE LET n == heap[order[i]] IN
         IF n.id \in DOMAIN m
            /\ ~(n.tag \in REQUIRED_TAGS /\ n.id = n.tag)
            /\ (n.tag \notin REQUIRED_TAGS /\ heap[m[n.id]].tag \notin REQUIRED_TAGS)
         THEN [ok |-> FALSE, m |-> m]
         ELSE BuildFrom(heap, order, i + 1, MapPut(m, n.id, order[i]))

\* HTMLDocument._update_id_map
_update_id_map(heap, root) ==
    IF root = Null THEN [ok |-> TRUE, m |-> <<>>]
    ELSE BuildFrom(heap, PreOrder(heap, root, Len(heap)), 1, <<>>)

\* result of a mutation primitive: err is "" on success, else the exception
\* class; why names the raise statement
Ok(d) == [err |-> "", why |-> "", d |-> d]
Raise(d, err, why) == [err |-> err, why |-> why, d |-> d]

\* the duplicate-id test shared by insert_node and append_node
IsDuplicate(d, h) ==
    LET n == d.node[h] IN
    /\ n.id \in DOMAIN d.id_map
    /\ \/ n.tag \notin REQUIRED_TAGS
       \/ d.node[d.id_map[n.id]].tag \notin REQUIRED_TAGS
       \/ n.tag # d.node[d.id_map[n.id]].tag

\* insert_node with the new id registered in the index before the checks
insert_node_IndexFirst(d, h, insert_location) ==
    LET target == get_node_by_id(d, insert_location)
        parent == d.node[target].parent
        index == IndexOf(d.node[parent].children, target)
        d1 == [d EXCEPT !.id_map = MapPut(d.id_map, d.node[h].id, h)]
    IN
    IF ~node_validate(d.node, h) THEN Raise(d1, "InvalidNodeError", "invalid_node")
    ELSE IF IsDuplicate(d, h) THEN Raise(d1, "DuplicateIdError", "duplicate")
    ELSE IF target = Null THEN Raise(d1, "InvalidNodeError", "not_found")
    ELSE IF parent = Null THEN Raise(d1, "InvalidNodeError", "no_parent")
    ELSE IF index = 0 THEN Raise(d1, "InvalidNodeError", "not_in_tree")
    ELSE Ok([d1 EXCEPT
               !.node = [d.node EXCEPT ![parent].children = InsertAt(@, index, h),
                                       ![h].parent = parent],
               !.modified = TRUE])

\* insert_node that splices the new node in after the target
insert_node_After(d, h, insert_location) ==
    LET target == get_node_by_id(d, insert_location)
        parent == d.node[target].parent
        index == IndexOf(d.node[parent].children, target)
    IN
    IF ~node_validate(d.node, h) THEN Raise(d, "InvalidNodeError", "invalid_node")
    ELSE IF IsDuplicate(d, h) THEN Raise(d, "DuplicateIdError", "duplicate")
    ELSE IF target = Null THEN Raise(d, "InvalidNodeError", "not_found")
    ELSE IF parent = Null THEN Raise(d, "InvalidNodeError", "no_parent")
    ELSE IF index = 0 THEN Raise(d, "InvalidNodeError", "not_in_tree")
    ELSE Ok([d EXCEPT
               !.node = [d.node EXCEPT ![parent].children = InsertAt(@, index + 1, h),
                                       ![h].parent = parent],
               !.id_map = MapPut(d.id_map, d.node[h].id, h),
               !.modified = TRUE])

\* HTMLDocument.insert_node(new_node, insert_location); h is new_node's handle
insert_node(d, h, insert_location) ==
    LET target == get_node_by_id(d, insert_location)
        parent == d.node[target].parent
        index == IndexOf(d.node[parent].children, target)
    IN
    IF ~node_validate(d.node, h) THEN Raise(d, "InvalidNodeError", "invalid_node")
    ELSE IF IsDuplicate(d, h) THEN Raise(d, "DuplicateIdError", "duplicate")
    ELSE IF target = Null THEN Raise(d, "InvalidNodeError", "not_found")
    ELSE IF parent = Null THEN Raise(d, "InvalidNodeError", "no_parent")
    ELSE IF index = 0 THEN Raise(d, "InvalidNodeError", "not_in_tree")
    ELSE Ok([d EXCEPT
               !.node = [d.node EXCEPT ![parent].children = InsertAt(@, index, h),
                                       ![h].parent = parent],
               !.id_map = MapPut(d.id_map, d.node[h].id, h),
               !.modified = TRUE])

\* append_node that does not register the new node in the index
append_node_NoIndex(d, h, parent_id) ==
    LET parent == get_node_by_id(d, parent_id) IN
    IF IsDuplicate(d, h) THEN Raise(d, "DuplicateIdError", "duplicate")
    ELSE IF parent = Null THEN Raise(d, "InvalidNodeError", "not_found")
    ELSE Ok([d EXCEPT
               !.node = add_child(d.node, parent, h),
               !.modified = TRUE])

\* HTMLDocument.append_node(new_node, parent_id)
append_node(d, h, parent_id) ==
    LET parent == get_node_by_id(d, parent_id) IN
    IF IsDuplicate(d, h) THEN Raise(d, "DuplicateIdError", "duplicate")
    ELSE IF parent = Null THEN Raise(d, "InvalidNodeError", "not_found")
    ELSE Ok([d EXCEPT
               !.node = add_child(d.node, parent, h),
               !.id_map = MapPut(d.id_map, d.node[h].id, h),
               !.modified = TRUE])

\* HTMLDocument._remove_node_from_id_map
_remove_node_from_id_map(d, h) ==
    MapDrop(d.id_map, {d.node[x].id : x \in SubtreeNodes(d.node, h)})

\* delete_node protecting the four ids instead of the four tags
delete_node_IdCheck(d, node_id) ==
    LET h == get_node_by_id(d, node_id) IN
    IF h = Null THEN Raise(d, "InvalidNodeError", "not_found")
    ELSE IF node_id \in {"html", "head", "title", "body"}
    THEN Raise(d, "InvalidNodeError", "protected")
    ELSE IF d.node[h].parent # Null
    THEN Ok([d EXCEPT
               !.node = remove_child(d.node, d.node[h].parent, h),
               !.id_map = _remove_node_from_id_map(d, h),
               !.modified = TRUE])
    ELSE Ok(d)

\* HTMLDocument.delete_node(node_id)
delete_node(d, node_id) ==
    LET h == get_node_by_id(d, node_id) IN
    IF h = Null THEN Raise(d, "InvalidNodeError", "not_found")
    ELSE IF d.node[h].tag \in {"html", "head", "title", "body"}
    THEN Raise(d, "InvalidNodeError", "protected")
    ELSE IF d.node[h].parent # Null
    THEN Ok([d EXCEPT
               !.node = remove_child(d.node, d.node[h].parent, h),
               !.id_map = _remove_node_from_id_map(d, h),
               !.modified = TRUE])
    ELSE Ok(d)

\* edit_node_id that leaves the old index entry in place
edit_node_id_KeepOld(d, old_id, new_id) ==
    LET h == get_node_by_id(d, old_id) IN
    IF new_id \in DOMAIN d.id_map THEN Raise(d, "DuplicateIdError", "duplicate")
    ELSE IF h = Null THEN Raise(d, "InvalidNodeError", "not_found")
    ELSE Ok([d EXCEPT
               !.node = [d.node EXCEPT ![h].id = new_id],
               !.id_map = MapPut(d.id_map, new_id, h),
               !.modified = TRUE])

\* edit_node_id that accepts a new id equal to the id the node already has
edit_node_id_SameIdOk(d, old_id, new_id) ==
    LET h == get_node_by_id(d, old_id) IN
    IF new_id \in DOMAIN d.id_map /\ new_id # old_id
    THEN Raise(d, "DuplicateIdError", "duplicate")
    ELSE IF h = Null THEN Raise(d, "InvalidNodeError", "not_found")
    ELSE Ok([d EXCEPT
               !.node = [d.node EXCEPT ![h].id = new_id],
               !.id_map = MapPut(MapDrop(d.id_map, {old_id}), new_id, h),
               !.modified = TRUE])

\* HTMLDocument.edit_node_id(old_id, new_id)
edit_node_id(d, old_id, new_id) ==
    LET h == get_node_by_id(d, old_id) IN
    IF new_id \in DOMAIN d.id_map THEN Raise(d, "DuplicateIdError", "duplicate")
    ELSE IF h = Null THEN Raise(d, "InvalidNodeError", "not_found")
    ELSE Ok([d EXCEPT
               !.node = [d.node EXCEPT ![h].id = new_id],
               !.id_map = MapPut(MapDrop(d.id_map, {old_id}), new_id, h),
               !.modified = TRUE])

\* edit_node_text that also writes the text into the node's descendants
edit_node_text_Subtree(d, node_id, new_text) ==
    LET h == get_node_by_id(d, node_id) IN
    IF h = Null THEN Raise(d, "InvalidNodeError", "not_found")
    ELSE Ok([d EXCEPT !.node = [x \in 1..Len(d.node) |->
                                   IF x \in SubtreeNodes(d.node, h)
                                   THEN [d.node[x] EXCEPT !.text = new_text]
                                   ELSE d.node[x]],
                      !.modified = TRUE])

\* edit_node_text that sets the flag before it resolves the id
edit_node_text_FlagFirst(d, node_id, new_text) ==
    LET h == get_node_by_id(d, node_id) IN
    IF h = Null THEN Raise([d EXCEPT !.modified = TRUE], "InvalidNodeError", "not_found")
    ELSE Ok([d EXCEPT !.node = [d.node EXCEPT ![h].text = new_text],
                      !.modified = TRUE])

\* HTMLDocument.edit_node_text(node_id, new_text)
edit_node_text(d, node_id, new_text) ==
    LET h == get_node_by_id(d, node_id) IN
    IF h = Null THEN Raise(d, "InvalidNodeError", "not_found")
    ELSE Ok([d EXCEPT !.node = [d.node EXCEPT ![h].text = new_text],
                      !.modified = TRUE])

\* HTMLDocument.validate: TRUE when no InvalidNodeError is raised.  The loops
\* keep the last head and the last body among the root's children.
doc_validate(d) ==
    /\ d.root # Null
    /\ d.node[d.root].tag = "html"
    /\ LET kids == d.node[d.root].children
           heads == {i \in 1..Len(kids) : d.node[kids[i]].tag = "head"}
           bodies == {i \in 1..Len(kids) : d.node[kids[i]].tag = "body"}
       IN /\ heads # {}
          /\ bodies # {}
          /\ LET head == kids[CHOOSE i \in heads : \A j \in heads : j <= i]
                 hk == d.node[head].children
             IN \E i \in 1..Len(hk) : d.node[hk[i]].tag = "title"

\* ------------------------------------------------------------------ commands
\* One record shape for the five EditCommand classes.  target is the id the
\* command addresses (insert_location, parent_id of AppendCommand, node_id,
\* old_id); id_value is the new node's id (new_id of EditIdCommand); text is
\* text_content / new_text; node is inserted_node / appended_node /
\* deleted_node.  before and after are not fields of the program: they record
\* the document as the command's latest successful execute found and left it.
Cmd(kind, tag_name, id_value, target, text) ==
    [kind |-> kind, tag_name |-> tag_name, id_value |-> id_value,
     target |-> target, text |-> text, node |-> Null,
     parent_id |-> NoId, next_sibling_id |-> NoId, old_text |-> NoText,
     before |-> <<>>, after |-> <<>>]

\* InsertCommand.__init__
InsertCommand(d, tag_name, id_value, insert_location, text_content) ==
    Cmd("Insert", tag_name, id_value, insert_location, text_content)

\* AppendCommand.__init__
AppendCommand(d, tag_name, id_value, parent_id, text_content) ==
    Cmd("Append", tag_name, id_value, parent_id, text_content)

\* DeleteCommand._save_state
_save_state(d, c) ==
    LET h == get_node_by_id(d, c.target) IN
    IF h # Null /\ d.node[h].parent # Null
    THEN LET p == d.node[h].parent
             siblings == d.node[p].children
             idx == IndexOf(siblings, h)
         IN [c EXCEPT !.parent_id = d.node[p].id,
                      !.next_sibling_id =
                          IF idx + 1 <= Len(siblings) THEN d.node[siblings[idx + 1]].id
                          ELSE NoId]
    ELSE c

\* DeleteCommand.__init__
DeleteCommand(d, node_id) == _save_state(d, Cmd("Delete", "", "", node_id, ""))

\* EditIdCommand.__init__
EditIdCommand(d, old_id, new_id) == Cmd("EditId", "", new_id, old_id, "")

\* EditTextCommand._save_old_text
_save_old_text(d, c) ==
    LET h == get_node_by_id(d, c.target) IN
    IF h # Null THEN [c EXCEPT !.old_text = d.node[h].text] ELSE c

\* EditTextCommand.__init__
EditTextCommand(d, node_id, new_text) ==
    _save_old_text(d, Cmd("EditText", "", "", node_id, new_text))

\* what a command's call of a document primitive (or of HTMLNode) was: the
\* primitive's name, the id of the node or the id argument it was given, and
\* the exception it raised (err = "" when it returned).  Not program state.
NoCall == [name |-> "", id |-> NoId, err |-> "", why |-> ""]
Call(name, id_, r) == [name |-> name, id |-> id_, err |-> r.err, why |-> r.why]
CtorFailed(id_) ==
    [name |-> "HTMLNode", id |-> id_, err |-> "InvalidNodeError", why |-> "no_id"]

\* result of Command.execute / Command.undo: the returned bool, the command
\* object and the document afterwards, and the call made
Res(ok, c, d, call) == [ok |-> ok, c |-> c, d |-> d, call |-> call]

\* the handle the next HTMLNode constructed gets
NewHandle(d) == Len(d.node) + 1
Alloc(d, n) == [d EXCEPT !.node = Append(@, n)]
\* a node constructed and then rejected is garbage: it leaves the heap
Discard(d) == [d EXCEPT !.node = SubSeq(@, 1, Len(@) - 1)]

\* InsertCommand.execute
InsertExecute(c, d) ==
    LET target == get_node_by_id(d, c.target)
        made == NewNode(c.tag_name, c.id_value, c.text)
        r == insert_node(Alloc(d, made.n), NewHandle(d), c.target)
    IN
    IF target = Null THEN Res(FALSE, c, d, NoCall)
    ELSE IF d.node[target].parent = Null THEN Res(FALSE, c, d, NoCall)
    ELSE IF ~made.ok THEN Res(FALSE, c, d, CtorFailed(c.id_value))
    ELSE IF r.err # "" THEN Res(FALSE, c, Discard(r.d), Call("insert_node", made.n.id, r))
    ELSE Res(TRUE, [c EXCEPT !.node = NewHandle(d)], r.d, Call("insert_node", made.n.id, r))

\* InsertCommand.undo and AppendCommand.undo (the same code)
InsertUndo(c, d) ==
    IF c.node # Null
    THEN LET r == delete_node(d, d.node[c.node].id) IN
         Res(r.err = "", c, r.d, Call("delete_node", d.node[c.node].id, r))
    ELSE Res(FALSE, c, d, NoCall)

\* AppendCommand.execute
AppendExecute(c, d) ==
    LET parent == get_node_by_id(d, c.target)
        made == NewNode(c.tag_name, c.id_value, c.text)
        r == append_node(Alloc(d, made.n), NewHandle(d), c.target)
    IN
    IF c.tag_name = "" THEN Res(FALSE, c, d, NoCall)
    ELSE IF parent = Null THEN Res(FALSE, c, d, NoCall)
    ELSE IF ~made.ok THEN Res(FALSE, c, d, CtorFailed(c.id_value))
    ELSE IF r.err # "" THEN Res(FALSE, c, Discard(r.d), Call("append_node", made.n.id, r))
    ELSE Res(TRUE, [c EXCEPT !.node = NewHandle(d)], r.d, Call("append_node", made.n.id, r))

\* DeleteCommand.execute: deleted_node is assigned before delete_node runs
DeleteExecute(c, d) ==
    LET h == get_node_by_id(d, c.target)
        r == delete_node(d, c.target)
    IN
    IF h = Null THEN Res(FALSE, c, d, NoCall)
    ELSE Res(r.err = "", [c EXCEPT !.node = h], r.d, Call("delete_node", c.target, r))

\* DeleteCommand.undo
DeleteUndo(c, d) ==
    IF c.node = Null \/ ~Truthy(c.parent_id) THEN Res(FALSE, c, d, NoCall)
    ELSE IF Truthy(c.next_sibling_id)
    THEN LET r == insert_node(d, c.node, c.next_sibling_id) IN
         Res(r.err = "", c, r.d, Call("insert_node", d.node[c.node].id, r))
    ELSE LET r == append_node(d, c.node, c.parent_id) IN
         Res(r.err = "", c, r.d, Call("append_node", d.node[c.node].id, r))

\* EditIdCommand.execute
EditIdExecute(c, d) ==
    LET r == edit_node_id(d, c.target, c.id_value) IN
    IF get_node_by_id(d, c.target) = Null THEN Res(FALSE, c, d, NoCall)
    ELSE Res(r.err = "", c, r.d, Call("edit_node_id", c.id_value, r))

\* EditIdCommand.undo
EditIdUndo(c, d) ==
    LET r == edit_node_id(d, c.id_value, c.target) IN
    Res(r.err = "", c, r.d, Call("edit_node_id", c.target, r))

\* EditTextCommand.execute that records the text it replaces as old_text
EditTextExecute_Recapture(c, d) ==
    LET r == edit_node_text(d, c.target, c.text)
        h == get_node_by_id(d, c.target)
    IN
    IF h = Null THEN Res(FALSE, c, d, NoCall)
    ELSE Res(r.err = "", [c EXCEPT !.old_text = d.node[h].text], r.d,
             Call("edit_node_text", c.target, r))

\* EditTextCommand.execute
EditTextExecute(c, d) ==
    LET r == edit_node_text(d, c.target, c.text) IN
    IF get_node_by_id(d, c.target) = Null THEN Res(FALSE, c, d, NoCall)
    ELSE Res(r.err = "", c, r.d, Call("edit_node_text", c.target, r))

\* EditTextCommand.undo
EditTextUndo(c, d) ==
    IF c.old_text # NoText
    THEN LET r == edit_node_text(d, c.target, c.old_text) IN
         Res(r.err = "", c, r.d, Call("edit_node_text", c.target, r))
    ELSE Res(FALSE, c, d, NoCall)

\* ------------------------------------------------------------ initial documents
Blank(tag, id_, text) == NewNode(tag, id_, text).n

\* HTMLDocument.create_empty_document
create_empty_document ==
    LET h0 == <<Blank("html", NoId, ""), Blank("head", NoId, ""),
                Blank("title", NoId, ""), Blank("body", NoId, "")>>
        h1 == add_child(h0, 1, 2)
        h2 == add_child(h1, 2, 3)
        h3 == add_child(h2, 1, 4)
    IN [node |-> h3, root |-> 1, id_map |-> _update_id_map(h3, 1).m, modified |-> FALSE]

\* HTMLParser._parse_node on
\* <html><head><title/></head><body><p id=a>t<p id=c/></p><p id=b/></body></html>
ParsedHeap ==
    LET h0 == <<Blank("html", NoId, ""), Blank("head", NoId, ""),
                Blank("title", NoId, ""), Blank("body", NoId, ""),
                Blank("p", "a", "t"), Blank("p", "c", ""), Blank("p", "b", "")>>
        h1 == add_child(h0, 2, 3)
        h2 == add_child(h1, 1, 2)
        h3 == add_child(h2, 5, 6)
        h4 == add_child(h3, 4, 5)
        h5 == add_child(h4, 4, 7)
    IN add_child(h5, 1, 4)

\* HTMLParser.parse_html: validate, set_unmodified, _update_id_map
parse_html(heap, root) ==
    [node |-> heap, root |-> root, id_map |-> _update_id_map(heap, root).m,
     modified |-> FALSE]

ParseOk(heap, root) ==
    /\ doc_validate([node |-> heap, root |-> root, id_map |-> <<>>, modified |-> FALSE])
    /\ _update_id_map(heap, root).ok

\* the documents an Editor starts with: init_empty_document, or load_file
InitialDocs ==
    {create_empty_document}
        \cup {parse_html(h, 1) : h \in {x \in {ParsedHeap} : ParseOk(x, 1)}}

\* ---------------------------------------------------------------- IO commands
\* the file system as the editor sees it: what reading a path gives ("ok": the
\* text of the sample page, "invalid": text parse_html rejects, "ioerror":
\* open() raises) and whether a path can be written
ReadPaths == {"page.html", "broken.html", "missing.html", "dup.html", "nobody.html"}
SavePaths == {"out.html", "nodir/out.html"}
FileRead(path) ==
    CASE path \in {"page.html", "dup.html", "nobody.html"} -> "ok"
      [] path = "broken.html" -> "invalid"
      [] OTHER -> "ioerror"

\* HTMLParser._parse_node on
\* <html><head><title/></head><body><p id=a/><p id=a/></body></html>
DupHeap ==
    LET h0 == <<Blank("html", NoId, ""), Blank("head", NoId, ""),
                Blank("title", NoId, ""), Blank("body", NoId, ""),
                Blank("p", "a", ""), Blank("p", "a", "")>>
        h1 == add_child(h0, 2, 3)
        h2 == add_child(h1, 1, 2)
        h3 == add_child(h2, 4, 5)
        h4 == add_child(h3, 4, 6)
    IN add_child(h4, 1, 4)

\* HTMLParser._parse_node on <html><head><title/></head></html>
NoBodyHeap ==
    LET h0 == <<Blank("html", NoId, ""), Blank("head", NoId, ""),
                Blank("title", NoId, "")>>
        h1 == add_child(h0, 2, 3)
    IN add_child(h1, 1, 2)

\* the tree _parse_node builds from the text of a readable file
FileHeap(path) ==
    CASE path = "dup.html" -> DupHeap
      [] path = "nobody.html" -> NoBodyHeap
      [] OTHER -> ParsedHeap

\* the exception that ends open, read and parse_html on a path: its class and
\* its cause, both "" when parse_html returns a document
LoadError(path) ==
    CASE FileRead(path) = "ioerror" -> [err |-> "IOError", why |-> "unreadable"]
      [] FileRead(path) = "invalid" ->
             [err |-> "InvalidNodeError", why |-> "invalid_html"]
      [] ~doc_validate([node |-> FileHeap(path), root |-> 1, id_map |-> <<>>,
                        modified |-> FALSE]) ->
             [err |-> "InvalidNodeError", why |-> "invalid_skeleton"]
      [] ~_update_id_map(FileHeap(path), 1).ok ->
             [err |-> "DuplicateIdError", why |-> "duplicate"]
      [] OTHER -> [err |-> "", why |-> ""]
Writable(path) == path = "out.html"

\* the nodes of a freshly built tree placed in the heap after k older nodes
Shift(heap, k) ==
    [i \in 1..Len(heap) |->
        [heap[i] EXCEPT !.parent = IF @ = Null THEN Null ELSE @ + k,
                        !.children = [j \in 1..Len(@) |-> @[j] + k]]]

\* a method of the base class was called: raise NotImplementedError
NotImplemented(method) ==
    [name |-> method, id |-> NoId, err |-> "NotImplementedError", why |-> "raise"]

\* the call ended with an exception no command catches
Raises(r) == r.call.err = "NotImplementedError"

\* Command(): the base class instantiated
BaseCommand == Cmd("Command", "", "", "", "")

\* InitCommand.__init__, SaveCommand.__init__, ReadCommand.__init__
InitCommand(d) == Cmd("Init", "", "", "", "")
SaveCommand(d, filepath) == Cmd("Save", "", "", filepath, "")
ReadCommand(d, filepath) == Cmd("Read", "", "", filepath, "")

\* InitCommand.execute: create_empty_document on the same HTMLDocument
InitExecute(c, d) ==
    LET k == Len(d.node)
        heap == d.node \o Shift(create_empty_document.node, k)
    IN Res(TRUE, c,
           [node |-> heap, root |-> k + 1,
            id_map |-> _update_id_map(heap, k + 1).m, modified |-> FALSE],
           NoCall)

\* SaveCommand.execute
SaveExecute(c, d) ==
    IF Writable(c.target) THEN Res(TRUE, c, [d EXCEPT !.modified = FALSE], NoCall)
    ELSE Res(FALSE, c, d, NoCall)

\* ReadCommand.execute: only document.root is replaced; an InvalidNodeError
\* or DuplicateIdError of parse_html is not caught here and reaches the caller
ReadExecute(c, d) ==
    LET k == Len(d.node)
        e == LoadError(c.target)
    IN
    CASE e.err = "" ->
             Res(TRUE, c, [d EXCEPT !.node = d.node \o Shift(FileHeap(c.target), k),
                                    !.root = k + 1], NoCall)
      [] e.err = "IOError" -> Res(FALSE, c, d, NoCall)
      [] OTHER -> Res(FALSE, c, d,
                      [name |-> "parse_html", id |-> NoId,
                       err |-> e.err, why |-> e.why])

\* the tree: the nodes reachable from the root, with every field
Tree(d) ==
    IF d.root = Null THEN <<>>
    ELSE [h \in SubtreeNodes(d.node, d.root) |-> d.node[h]]

\* a successful execute() stamps the command with the document it found and
\* the document it left
Stamped(r, d) == IF r.ok THEN [r EXCEPT !.c.before = d, !.c.after = r.d] ELSE r

\* Command.execute, dispatched on the class
CmdExecute(c, d) ==
    Stamped(CASE c.kind = "Insert" -> InsertExecute(c, d)
              [] c.kind = "Append" -> AppendExecute(c, d)
              [] c.kind = "Delete" -> DeleteExecute(c, d)
              [] c.kind = "EditId" -> EditIdExecute(c, d)
              [] c.kind = "EditText" -> EditTextExecute(c, d)
              [] c.kind = "Init" -> InitExecute(c, d)
              [] c.kind = "Save" -> SaveExecute(c, d)
              [] c.kind = "Read" -> ReadExecute(c, d)
              [] OTHER -> Res(FALSE, c, d, NotImplemented("Command.execute")),
            d)

\* Command.undo, dispatched on the class
CmdUndo(c, d) ==
    CASE c.kind = "Insert" -> InsertUndo(c, d)
      [] c.kind = "Append" -> InsertUndo(c, d)
      [] c.kind = "Delete" -> DeleteUndo(c, d)
      [] c.kind = "EditId" -> EditIdUndo(c, d)
      [] c.kind = "EditText" -> EditTextUndo(c, d)
      [] OTHER -> Res(FALSE, c, d, NotImplemented("Command.undo"))

\* -------------------------------------------------------------------- inputs
\* tag names, ids and texts the commands are constructed with
TagInputs == {"p", "body", ""}
NewIdInputs == {"n", "c", ""}
InsertTargets == {"html", "a", "b", "n"}
AppendTargets == {"html", "body", "a"}
DeleteTargets == {"html", "head", "title", "body", "a", "b", "c", "n", ""}
RenameTargets == {"body", "a", "b"}
RenameIds == {"n", "a", "", "body"}
TextTargets == {"a", "b", "body"}
TextInputs == {"x", "y"}

\* the content of the subtree at h: tag, id, text and the contents of the
\* children in order, whatever objects hold them
RECURSIVE ShapeOf(_, _, _)
ShapeOf(heap, h, fuel) ==
    IF fuel = 0 THEN <<>>
    ELSE <<heap[h].tag, heap[h].id, heap[h].text,
           [i \in 1..Len(heap[h].children) |->
               ShapeOf(heap, heap[h].children[i], fuel - 1)]>>

Shape(d) == IF d.root = Null THEN <<>> ELSE ShapeOf(d.node, d.root, Len(d.node))

\* the paths given to a Session, and what they hold when it is constructed:
\* the sample page, a page with duplicate ids, or no file ("absent").  The
\* directory of "nodir/new.html" does not exist.
SessionPaths == {"page.html", "dup.html", "new.html", "nodir/new.html"}
InitialDisk ==
    [p \in SessionPaths |->
        CASE p = "page.html" -> "page"
          [] p = "dup.html" -> "dup"
          [] OTHER -> "absent"]

\* -------------------------------------------------------------------- Editor
VARIABLES
    doc,          \* Editor.document
    undo_stack,   \* Editor._undo_stack, most recent last
    redo_stack,   \* Editor._redo_stack, most recent last
    modified,     \* Editor._modified
    held,         \* a command constructed and not yet executed: <<>> or <<c>>
    nCmds,        \* commands constructed so far
    nAlloc,       \* nodes the commands have attached so far
    lastOp,       \* the editor call made last
    lastKind,     \* class of the command that call ran
    ret,          \* what that call returned
    lastCall,     \* the primitive that call's command invoked, and its outcome
    pre,          \* document, stacks and flag as they were when that call began
    lastArgs,     \* arguments of the last call made on the document directly
    applied,      \* the held command's latest execute() succeeded and it has
                  \* not been undone since (commands called directly)
    nCalls,       \* calls made directly so far
    editors,      \* Session.editors, in insertion order: one record per Editor
    active_editor,\* Session.active_editor: the Editor object, Null for None
    disk,         \* what each path of the session holds on the file system
    nEditors,     \* Editor objects the session has constructed so far
    undone,       \* <<document and stacks as the last call found them>> when
                  \* that call was an undo() that returned True, or such an
                  \* undo() followed at once by redo(); <<>> otherwise
    saved         \* the content of the document at the most recent load,
                  \* save or reset

vars == <<doc, undo_stack, redo_stack, modified, held, nCmds, nAlloc, lastOp, lastKind, ret, lastCall, pre, lastArgs, applied, nCalls, editors, active_editor, disk, nEditors, undone, saved>>

\* what only the calls on a Session set
session == <<editors, active_editor, disk, nEditors>>

\* what only the direct calls (on the document, on a command object) set
direct == <<lastArgs, applied, nCalls>>

Snapshot == [doc |-> doc, undo_stack |-> undo_stack, redo_stack |-> redo_stack,
             modified |-> modified, applied |-> applied,
             editors |-> editors, active_editor |-> active_editor, disk |-> disk]

\* Editor.__init__
Init ==
    /\ doc \in InitialDocs
    /\ undo_stack = <<>>
    /\ redo_stack = <<>>
    /\ modified = FALSE
    /\ held = <<>>
    /\ nCmds = 0
    /\ nAlloc = 0
    /\ lastOp = "init"
    /\ lastKind = ""
    /\ ret = TRUE
    /\ lastCall = NoCall
    /\ lastArgs = <<>>
    /\ applied = FALSE
    /\ nCalls = 0
    /\ editors = <<>>
    /\ active_editor = Null
    /\ disk = InitialDisk
    /\ nEditors = 0
    /\ undone = <<>>
    /\ saved = Shape(doc)
    /\ pre = Snapshot

\* the constructor calls main.py can make on the current document
NodeCommands(d) ==
    {InsertCommand(d, t, i, l, "") : t \in TagInputs, i \in NewIdInputs, l \in InsertTargets}
        \cup {AppendCommand(d, t, i, l, "") : t \in TagInputs, i \in NewIdInputs, l \in AppendTargets}
        \cup {EditIdCommand(d, o, n) : o \in RenameTargets, n \in RenameIds}

\* the commands whose constructor reads the document
CapturingCommands(d) ==
    {DeleteCommand(d, i) : i \in DeleteTargets}
        \cup {EditTextCommand(d, i, t) : i \in TextTargets, t \in TextInputs}

Commands(d) == NodeCommands(d) \cup CapturingCommands(d)

\* True when running c may construct an HTMLNode
Allocates(c) == c.kind \in {"Insert", "Append"}

\* the stacks and the flag of the editor, as one value
Stacks == [undo_stack |-> undo_stack, redo_stack |-> redo_stack, modified |-> modified]

\* after_execute that leaves the redo stack alone
after_execute_NoClear(e, r) ==
    IF r.ok
    THEN [e EXCEPT !.undo_stack = Append(e.undo_stack, r.c), !.modified = TRUE]
    ELSE e

\* after_execute that sets the flag whatever execute() returned
after_execute_FlagFirst(e, r) ==
    IF r.ok
    THEN [undo_stack |-> Append(e.undo_stack, r.c), redo_stack |-> <<>>, modified |-> TRUE]
    ELSE [e EXCEPT !.modified = TRUE]

\* Editor.execute_command after command.execute() returned r
after_execute(e, r) ==
    IF r.ok
    THEN [undo_stack |-> Append(e.undo_stack, r.c), redo_stack |-> <<>>, modified |-> TRUE]
    ELSE e

\* after_undo that does not put a command back when its undo failed
after_undo_Drop(e, popped, r) ==
    IF r.ok
    THEN [undo_stack |-> popped, redo_stack |-> Append(e.redo_stack, r.c),
          modified |-> (Len(popped) > 0)]
    ELSE [e EXCEPT !.undo_stack = popped]

\* Editor.undo after command.undo() returned r; popped is the undo stack
\* without the command.  An exception of command.undo() leaves Editor.undo
\* right after the pop.
after_undo(e, popped, r) ==
    IF r.ok
    THEN [undo_stack |-> popped, redo_stack |-> Append(e.redo_stack, r.c),
          modified |-> (Len(popped) > 0)]
    ELSE IF Raises(r) THEN [e EXCEPT !.undo_stack = popped]
    ELSE [e EXCEPT !.undo_stack = Append(popped, r.c)]

\* after_redo that leaves the flag alone
after_redo_KeepFlag(e, popped, r) ==
    IF r.ok
    THEN [undo_stack |-> Append(e.undo_stack, r.c), redo_stack |-> popped,
          modified |-> e.modified]
    ELSE [e EXCEPT !.redo_stack = Append(popped, r.c)]

\* Editor.redo after command.execute() returned r; popped is the redo stack
\* without the command.  An exception of command.execute() leaves Editor.redo
\* right after the pop.
after_redo(e, popped, r) ==
    IF r.ok
    THEN [undo_stack |-> Append(e.undo_stack, r.c), redo_stack |-> popped,
          modified |-> TRUE]
    ELSE IF Raises(r) THEN [e EXCEPT !.redo_stack = popped]
    ELSE [e EXCEPT !.redo_stack = Append(popped, r.c)]

\* the content last loaded, saved or reset, after command.execute() returned r:
\* an InitCommand, SaveCommand or ReadCommand that succeeded reset, saved or
\* loaded the document
after_io(content, c, r) ==
    IF r.ok /\ c.kind \in {"Init", "Save", "Read"} THEN Shape(r.d) ELSE content

\* Editor.execute_command(command)
execute_command(c) ==
    \E r \in {CmdExecute(c, doc)} :
    /\ Allocates(c) => nAlloc < MaxAllocs
    /\ nAlloc' = nAlloc + Len(r.d.node) - Len(doc.node)
    /\ pre' = Snapshot
    /\ lastOp' = "execute"
    /\ lastKind' = c.kind
    /\ ret' = r.ok
    /\ lastCall' = r.call
    /\ doc' = r.d
    /\ undo_stack' = after_execute(Stacks, r).undo_stack
    /\ redo_stack' = after_execute(Stacks, r).redo_stack
    /\ modified' = after_execute(Stacks, r).modified
    /\ undone' = <<>>
    /\ saved' = after_io(saved, c, r)
    /\ UNCHANGED direct
    /\ UNCHANGED session

\* a command is constructed and kept for later.  InsertCommand, AppendCommand
\* and EditIdCommand store their arguments only, so constructing one early is
\* constructing it late; the held command is one whose constructor reads the
\* document.
Construct ==
    /\ held = <<>>
    /\ nCmds < MaxCmds
    /\ \E c \in CapturingCommands(doc) : held' = <<c>>
    /\ nCmds' = nCmds + 1
    /\ lastOp' = "construct"
    /\ lastKind' = held'[1].kind
    /\ ret' = TRUE
    /\ lastCall' = NoCall
    /\ pre' = Snapshot
    /\ UNCHANGED <<doc, undo_stack, redo_stack, modified, nAlloc, saved>>
    /\ undone' = <<>>
    /\ UNCHANGED direct
    /\ UNCHANGED session

\* the held command is handed to Editor.execute_command
ExecuteHeld ==
    /\ held # <<>>
    /\ execute_command(held[1])
    /\ held' = <<>>
    /\ UNCHANGED nCmds

\* main.py do_insert, do_append, do_delete, do_edit_id, do_edit_text: the
\* command is constructed and handed to Editor.execute_command at once
RunCommand ==
    /\ nCmds < MaxCmds
    /\ \E c \in Commands(doc) : execute_command(c)
    /\ nCmds' = nCmds + 1
    /\ UNCHANGED held

\* Editor.undo
Undo ==
    /\ pre' = Snapshot
    /\ lastOp' = "undo"
    /\ UNCHANGED <<held, nCmds, nAlloc, saved>>
    /\ UNCHANGED direct
    /\ UNCHANGED session
    /\ IF undo_stack = <<>>
       THEN /\ ret' = FALSE
            /\ lastKind' = ""
            /\ lastCall' = NoCall
            /\ UNCHANGED <<doc, undo_stack, redo_stack, modified>>
       ELSE \E command \in {undo_stack[Len(undo_stack)]},
               popped \in {SubSeq(undo_stack, 1, Len(undo_stack) - 1)} :
            \E r \in {CmdUndo(command, doc)} :
               /\ lastKind' = command.kind
               /\ ret' = r.ok
               /\ lastCall' = r.call
               /\ doc' = r.d
               /\ undo_stack' = after_undo(Stacks, popped, r).undo_stack
               /\ redo_stack' = after_undo(Stacks, popped, r).redo_stack
               /\ modified' = after_undo(Stacks, popped, r).modified
    /\ undone' = IF ret' THEN <<[doc |-> doc, undo_stack |-> undo_stack,
                                 redo_stack |-> redo_stack]>>
                 ELSE <<>>

\* Editor.redo
Redo ==
    /\ pre' = Snapshot
    /\ lastOp' = "redo"
    /\ undone' = IF lastOp = "undo" THEN undone ELSE <<>>
    /\ UNCHANGED <<held, nCmds>>
    /\ UNCHANGED direct
    /\ UNCHANGED session
    /\ IF redo_stack = <<>>
       THEN /\ ret' = FALSE
            /\ UNCHANGED nAlloc
            /\ lastKind' = ""
            /\ lastCall' = NoCall
            /\ UNCHANGED <<doc, undo_stack, redo_stack, modified, saved>>
       ELSE \E command \in {redo_stack[Len(redo_stack)]},
               popped \in {SubSeq(redo_stack, 1, Len(redo_stack) - 1)} :
            \E r \in {CmdExecute(command, doc)} :
               /\ Allocates(command) => nAlloc < MaxAllocs
               /\ nAlloc' = nAlloc + Len(r.d.node) - Len(doc.node)
               /\ lastKind' = command.kind
               /\ ret' = r.ok
               /\ lastCall' = r.call
               /\ doc' = r.d
               /\ undo_stack' = after_redo(Stacks, popped, r).undo_stack
               /\ redo_stack' = after_redo(Stacks, popped, r).redo_stack
               /\ modified' = after_redo(Stacks, popped, r).modified
               /\ saved' = after_io(saved, command, r)

Next == Construct \/ ExecuteHeld \/ RunCommand \/ Undo \/ Redo

Spec == Init /\ [][Next]_vars

\* ------------------------------------------------- Editor with files and IO
\* _clear_command_stacks that forgets the redo stack
_clear_command_stacks_UndoOnly(e) == [e EXCEPT !.undo_stack = <<>>]

\* Editor._clear_command_stacks
_clear_command_stacks(e) == [e EXCEPT !.undo_stack = <<>>, !.redo_stack = <<>>]

\* the stacks and the flag after Editor.init_empty_document, and after the
\* successful path of Editor.load_file
after_reset(e) == [_clear_command_stacks(e) EXCEPT !.modified = FALSE]

\* after_save that leaves the flag alone
after_save_KeepFlag(e, ok) == e

\* the stacks and the flag after Editor.save_file wrote the file (ok) or
\* caught an exception
after_save(e, ok) == IF ok THEN [e EXCEPT !.modified = FALSE] ELSE e

\* the bookkeeping of an Editor call that runs no command
EditorCall(name, r) ==
    /\ pre' = Snapshot
    /\ lastOp' = name
    /\ lastKind' = ""
    /\ lastCall' = NoCall
    /\ ret' = r
    /\ undone' = <<>>
    /\ UNCHANGED <<held, nCmds, nAlloc>>
    /\ UNCHANGED direct
    /\ UNCHANGED session

\* Editor.init_empty_document
InitEmpty ==
    /\ EditorCall("init_empty_document", TRUE)
    /\ doc' = create_empty_document
    /\ saved' = Shape(create_empty_document)
    /\ undo_stack' = after_reset(Stacks).undo_stack
    /\ redo_stack' = after_reset(Stacks).redo_stack
    /\ modified' = after_reset(Stacks).modified

\* load_file that keeps the open document when the file cannot be loaded
load_file_KeepDocument(d, filepath) ==
    LET e == LoadError(filepath) IN
    IF e.err = ""
    THEN [ok |-> TRUE, d |-> parse_html(FileHeap(filepath), 1), call |-> NoCall]
    ELSE [ok |-> FALSE, d |-> d,
          call |-> [name |-> "load_file", id |-> NoId, err |-> e.err, why |-> e.why]]

\* Editor.load_file(filepath): the document it leaves, what it returns and the
\* exception it caught; any exception ends in init_empty_document
load_file(d, filepath) ==
    LET e == LoadError(filepath) IN
    IF e.err = ""
    THEN [ok |-> TRUE, d |-> parse_html(FileHeap(filepath), 1), call |-> NoCall]
    ELSE [ok |-> FALSE, d |-> create_empty_document,
          call |-> [name |-> "load_file", id |-> NoId, err |-> e.err, why |-> e.why]]

\* Editor.load_file(filepath)
LoadFile ==
    \E f \in ReadPaths :
        \E r \in {load_file(doc, f)} :
        /\ pre' = Snapshot
        /\ lastOp' = "load_file"
        /\ lastKind' = ""
        /\ lastCall' = r.call
        /\ ret' = r.ok
        /\ undone' = <<>>
        /\ UNCHANGED <<held, nCmds, nAlloc>>
        /\ UNCHANGED direct
        /\ UNCHANGED session
        /\ doc' = r.d
        /\ saved' = Shape(r.d)
        /\ undo_stack' = after_reset(Stacks).undo_stack
        /\ redo_stack' = after_reset(Stacks).redo_stack
        /\ modified' = after_reset(Stacks).modified

\* Editor.save_file(filepath)
SaveFile ==
    \E f \in SavePaths :
        /\ EditorCall("save_file", Writable(f))
        /\ saved' = IF Writable(f) THEN Shape(doc) ELSE saved
        /\ undo_stack' = after_save(Stacks, Writable(f)).undo_stack
        /\ redo_stack' = after_save(Stacks, Writable(f)).redo_stack
        /\ modified' = after_save(Stacks, Writable(f)).modified
        /\ UNCHANGED doc

\* the IO commands and the base command a caller can construct
IOCommands(d) ==
    {BaseCommand, InitCommand(d)}
        \cup {SaveCommand(d, f) : f \in SavePaths}
        \cup {ReadCommand(d, f) : f \in ReadPaths}

\* Editor.execute_command given an IO command, the base command, or an edit
\* command
RunAny ==
    /\ nCmds < MaxCmds
    /\ \E c \in IOCommands(doc) \cup CapturingCommands(doc) : execute_command(c)
    /\ nCmds' = nCmds + 1
    /\ UNCHANGED held

NextIO == RunAny \/ Undo \/ Redo \/ InitEmpty \/ LoadFile \/ SaveFile

SpecIO == Init /\ [][NextIO]_vars

\* ------------------------------------------- HTMLDocument called directly
\* The mutation primitives of HTMLDocument called one after another on one
\* document, as the commands and the tests of the models call them.

\* nodes that belong to no tree: constructed or deleted, and not attached
Detached(d) ==
    {h \in 1..Len(d.node) : d.node[h].parent = Null /\ h # d.root}

\* ids a caller names, and the (tag, id) pairs nodes are constructed with
ApiIds == {"html", "body", "a", "c", "n"}
ApiNodes == {<<"p", "n">>, <<"p", "c">>, <<"body", "n">>, <<"body", "">>}

\* the bookkeeping of one direct call that returned r (err = "" is a normal
\* return); args is what was passed: for insert_node and append_node the node
\* (its handle), the id given and the id the node carries
DocCall(name, args, id_, r, d1) ==
    /\ pre' = Snapshot
    /\ lastOp' = "call"
    /\ lastKind' = ""
    /\ lastCall' = Call(name, id_, r)
    /\ lastArgs' = args
    /\ ret' = (r.err = "")
    /\ doc' = d1
    /\ nAlloc' = nAlloc + Len(d1.node) - Len(doc.node)
    /\ nCalls < MaxCalls
    /\ nCalls' = nCalls + 1
    /\ UNCHANGED <<undo_stack, redo_stack, modified, held, nCmds, applied>>
    /\ UNCHANGED session
    /\ UNCHANGED <<undone, saved>>

\* insert_node(HTMLNode(tag, id), insert_location)
DocInsertNew ==
    /\ nAlloc < MaxAllocs
    /\ \E ti \in ApiNodes, l \in ApiIds :
          \E made \in {NewNode(ti[1], ti[2], "")}, h \in {NewHandle(doc)} :
          \E r \in {insert_node(Alloc(doc, made.n), h, l)} :
             /\ made.ok
             /\ DocCall("insert_node", <<h, l, made.n.id>>, made.n.id, r,
                        IF r.err = "" THEN r.d ELSE Discard(r.d))

\* append_node(HTMLNode(tag, id), parent_id)
DocAppendNew ==
    /\ nAlloc < MaxAllocs
    /\ \E ti \in ApiNodes, l \in ApiIds :
          \E made \in {NewNode(ti[1], ti[2], "")}, h \in {NewHandle(doc)} :
          \E r \in {append_node(Alloc(doc, made.n), h, l)} :
             /\ made.ok
             /\ DocCall("append_node", <<h, l, made.n.id>>, made.n.id, r,
                        IF r.err = "" THEN r.d ELSE Discard(r.d))

\* insert_node / append_node of a node that was deleted before, as
\* DeleteCommand.undo calls them
DocReattach ==
    \E h \in Detached(doc), l \in ApiIds :
        \/ \E r \in {insert_node(doc, h, l)} :
              DocCall("insert_node", <<h, l, doc.node[h].id>>, doc.node[h].id, r, r.d)
        \/ \E r \in {append_node(doc, h, l)} :
              DocCall("append_node", <<h, l, doc.node[h].id>>, doc.node[h].id, r, r.d)

\* delete_node(node_id)
DocDelete ==
    \E i \in ApiIds :
        \E r \in {delete_node(doc, i)} : DocCall("delete_node", <<i>>, i, r, r.d)

\* edit_node_id(old_id, new_id)
DocEditId ==
    \E o \in ApiIds, n \in RenameIds :
        \E r \in {edit_node_id(doc, o, n)} : DocCall("edit_node_id", <<o, n>>, n, r, r.d)

\* edit_node_text(node_id, new_text)
DocEditText ==
    \E i \in ApiIds, t \in TextInputs :
        \E r \in {edit_node_text(doc, i, t)} : DocCall("edit_node_text", <<i, t>>, i, r, r.d)

NextDoc ==
    DocInsertNew \/ DocAppendNew \/ DocReattach \/ DocDelete \/ DocEditId \/ DocEditText

SpecDoc == Init /\ [][NextDoc]_vars

\* ---------------------------------------------- commands called directly
\* A command object used without the Editor, as the tests of the commands
\* use it: constructed on the document, then execute() and undo() called on
\* it in any order.

\* a command is constructed
CmdConstruct ==
    /\ nCmds < MaxInstances
    /\ \E c \in Commands(doc) : held' = <<c>>
    /\ nCmds' = nCmds + 1
    /\ applied' = FALSE
    /\ pre' = Snapshot
    /\ lastOp' = "c.construct"
    /\ lastKind' = held'[1].kind
    /\ ret' = TRUE
    /\ lastCall' = NoCall
    /\ UNCHANGED <<doc, undo_stack, redo_stack, modified, nAlloc, lastArgs, nCalls>>
    /\ UNCHANGED session
    /\ UNCHANGED <<undone, saved>>

\* command.execute()
CmdCallExecute ==
    /\ held # <<>>
    /\ \E r \in {CmdExecute(held[1], doc)} :
       /\ Allocates(held[1]) => nAlloc < MaxAllocs
       /\ nAlloc' = nAlloc + Len(r.d.node) - Len(doc.node)
       /\ held' = <<r.c>>
       /\ applied' = r.ok
       /\ ret' = r.ok
       /\ lastCall' = r.call
       /\ doc' = r.d
    /\ pre' = Snapshot
    /\ lastOp' = "c.execute"
    /\ lastKind' = held[1].kind
    /\ nCalls < MaxCalls
    /\ nCalls' = nCalls + 1
    /\ UNCHANGED <<undo_stack, redo_stack, modified, nCmds, lastArgs>>
    /\ UNCHANGED session
    /\ UNCHANGED <<undone, saved>>

\* command.undo()
CmdCallUndo ==
    /\ held # <<>>
    /\ \E r \in {CmdUndo(held[1], doc)} :
       /\ held' = <<r.c>>
       /\ applied' = (applied /\ ~r.ok)
       /\ ret' = r.ok
       /\ lastCall' = r.call
       /\ doc' = r.d
    /\ pre' = Snapshot
    /\ lastOp' = "c.undo"
    /\ lastKind' = held[1].kind
    /\ nCalls < MaxCalls
    /\ nCalls' = nCalls + 1
    /\ UNCHANGED <<undo_stack, redo_stack, modified, nCmds, nAlloc, lastArgs>>
    /\ UNCHANGED session
    /\ UNCHANGED <<undone, saved>>

NextCmd == CmdConstruct \/ CmdCallExecute \/ CmdCallUndo

SpecCmd == Init /\ [][NextCmd]_vars

\* ------------------------------------------------- the index rebuilt whole
\* A document whose tree is edited through HTMLNode directly and whose index
\* is then rebuilt, as the tests of HTMLDocument do (body.add_child(div);
\* document._update_id_map()), next to the incremental append_node /
\* insert_node on the same document.

\* a call of document._update_id_map(): the index is cleared and filled in
\* pre-order; DuplicateIdError leaves the entries written so far
rebuild(d) ==
    LET r == _update_id_map(d.node, d.root) IN
    IF r.ok THEN Ok([d EXCEPT !.id_map = r.m])
    ELSE Raise([d EXCEPT !.id_map = r.m], "DuplicateIdError", "duplicate")

\* HTMLDocument.set_root(root)
set_root(d, root) ==
    LET r == rebuild([d EXCEPT !.root = root]) IN
    IF r.err = "" THEN Ok([r.d EXCEPT !.modified = FALSE]) ELSE r

\* the (tag, id) pairs the nodes added to the tree are constructed with
TreeKinds == {<<"p", "a">>, <<"p", "n">>, <<"p", "body">>, <<"body", "">>, <<"body", "n">>}

\* the bookkeeping of one call on the tree or the index; args is the node
\* handle first, then the strings given
TreeCall(name, args, id_, r) ==
    /\ nCalls < MaxCalls
    /\ nCalls' = nCalls + 1
    /\ pre' = Snapshot
    /\ lastOp' = "tree"
    /\ lastKind' = ""
    /\ lastCall' = Call(name, id_, r)
    /\ lastArgs' = args
    /\ ret' = (r.err = "")
    /\ doc' = r.d
    /\ nAlloc' = nAlloc + Len(r.d.node) - Len(doc.node)
    /\ UNCHANGED <<undo_stack, redo_stack, modified, held, nCmds, applied>>
    /\ UNCHANGED session
    /\ UNCHANGED <<undone, saved>>

\* parent.add_child(HTMLNode(tag, id)) on a node of the tree: the index is
\* not told
TreeAddChild ==
    /\ nAlloc < MaxAllocs
    /\ \E ti \in TreeKinds, p \in SubtreeNodes(doc.node, doc.root) :
       \E made \in {NewNode(ti[1], ti[2], "")}, h \in {NewHandle(doc)} :
          /\ made.ok
          /\ TreeCall("add_child", <<h, doc.node[p].id>>, made.n.id,
                      Ok([doc EXCEPT !.node = add_child(Append(doc.node, made.n), p, h)]))

\* document._update_id_map()
TreeUpdate ==
    \E r \in {rebuild(doc)} : TreeCall("_update_id_map", <<>>, NoId, r)

\* document.set_root(node) with a node of the tree
TreeSetRoot ==
    \E h \in SubtreeNodes(doc.node, doc.root) :
    \E r \in {set_root(doc, h)} : TreeCall("set_root", <<h>>, doc.node[h].id, r)

\* document.append_node(HTMLNode(tag, id), parent_id); the caller keeps the
\* node when the call raises
TreeAppend ==
    /\ nAlloc < MaxAllocs
    /\ \E ti \in TreeKinds, l \in ApiIds :
       \E made \in {NewNode(ti[1], ti[2], "")}, h \in {NewHandle(doc)} :
       \E r \in {append_node(Alloc(doc, made.n), h, l)} :
          /\ made.ok
          /\ TreeCall("append_node", <<h, l>>, made.n.id, r)

\* document.insert_node(HTMLNode(tag, id), insert_location)
TreeInsert ==
    /\ nAlloc < MaxAllocs
    /\ \E ti \in TreeKinds, l \in ApiIds :
       \E made \in {NewNode(ti[1], ti[2], "")}, h \in {NewHandle(doc)} :
       \E r \in {insert_node(Alloc(doc, made.n), h, l)} :
          /\ made.ok
          /\ TreeCall("insert_node", <<h, l>>, made.n.id, r)

\* the tags and ids HTMLNode is constructed with (NoId: no id supplied)
CtorTags == {"p", "P", "body", "BODY", "html"}
CtorIds == {NoId, "", "n", "body"}

\* HTMLNode(tag, id_): the caller keeps the node; nothing is kept when the
\* constructor raises
TreeNew ==
    /\ nAlloc < MaxAllocs
    /\ \E tag \in CtorTags, id_ \in CtorIds :
       \E made \in {NewNode(tag, id_, "")}, h \in {NewHandle(doc)} :
          TreeCall("HTMLNode", <<h, tag, id_>>, made.n.id,
                   IF made.ok THEN Ok(Alloc(doc, made.n))
                   ELSE Raise(doc, "InvalidNodeError", "no_id"))

NextTree ==
    TreeAddChild \/ TreeUpdate \/ TreeSetRoot \/ TreeAppend \/ TreeInsert \/ TreeNew

SpecTree == Init /\ [][NextTree]_vars

\* ------------------------------------------------ nodes linked directly
\* HTMLNode.add_child and HTMLNode.remove_child called on any two nodes the
\* caller holds, in the tree or out of it, next to the constructor.

\* parent.add_child(child)
NodeAddChild ==
    \E p \in 1..Len(doc.node), c \in 1..Len(doc.node) :
        TreeCall("add_child", <<c, p>>, doc.node[c].id,
                 Ok([doc EXCEPT !.node = add_child(doc.node, p, c)]))

\* parent.remove_child(child)
NodeRemoveChild ==
    \E p \in 1..Len(doc.node), c \in 1..Len(doc.node) :
        TreeCall("remove_child", <<c, p>>, doc.node[c].id,
                 Ok([doc EXCEPT !.node = remove_child(doc.node, p, c)]))

NextNode == TreeNew \/ NodeAddChild \/ NodeRemoveChild

SpecNode == Init /\ [][NextNode]_vars

\* ------------------------------------------------------------------ Session
\* Editor objects one Session constructs at most
MaxEditors == 3

\* the fields of the Session and the file system, as one value
Sess == [editors |-> editors, active_editor |-> active_editor, disk |-> disk,
         nEditors |-> nEditors]

\* what a Session method returns (ok), the session it leaves (s), and the
\* exception met on the way (call): one Editor.load_file caught, or one that
\* left the method
SOut(ok, s, call) == [ok |-> ok, s |-> s, call |-> call]

\* `filename in self.editors`: the position of the path's editor, 0 when the
\* path is not open
EditorAt(eds, filename) ==
    IF \E i \in 1..Len(eds) : eds[i].filepath = filename
    THEN CHOOSE i \in 1..Len(eds) : eds[i].filepath = filename
    ELSE 0

\* the file of the file model that holds the given text
Stored(text) ==
    CASE text = "page" -> "page.html"
      [] text = "dup" -> "dup.html"
      [] OTHER -> "missing.html"

\* Editor.load_file on a path holding the given text; "skeleton" is the text
\* create_new_file wrote
DiskLoad(text) ==
    IF text = "skeleton"
    THEN [ok |-> TRUE, d |-> parse_html(create_empty_document.node, 1),
          call |-> NoCall]
    ELSE load_file(create_empty_document, Stored(text))

\* Path.write_text(content) can create the file
DirExists(filepath) == filepath # "nodir/new.html"

\* Editor(filepath) as the session keeps it: the object, its path, its
\* document, its modified flag, and what its last load_file returned
NewEditor(s, filepath, d, loaded) ==
    [obj |-> s.nEditors + 1, filepath |-> filepath, document |-> d,
     modified |-> FALSE, loaded |-> loaded]

\* Session.load_file(filepath): Editor(filepath) loads the file if it exists,
\* editor.load_file(filepath) loads it again and its result is dropped; no
\* EditorException leaves either
Session_load_file(s, filepath) ==
    LET i == EditorAt(s.editors, filepath)
        r == DiskLoad(s.disk[filepath])
        e == NewEditor(s, filepath, r.d, r.ok)
    IN IF i # 0
       THEN SOut(TRUE, [s EXCEPT !.active_editor = s.editors[i].obj], NoCall)
       ELSE SOut(TRUE, [s EXCEPT !.editors = Append(@, e), !.active_editor = e.obj,
                                 !.nEditors = @ + 1], r.call)

\* Session.create_new_file(filepath)
create_new_file(s, filepath) ==
    LET e == NewEditor(s, filepath, create_empty_document, FALSE) IN
    IF EditorAt(s.editors, filepath) # 0 THEN SOut(FALSE, s, NoCall)
    ELSE IF ~DirExists(filepath)
    THEN SOut(FALSE, [s EXCEPT !.nEditors = @ + 1],
              [name |-> "write_text", id |-> NoId, err |-> "FileNotFoundError",
               why |-> "caught"])
    ELSE SOut(TRUE, [s EXCEPT !.editors = Append(@, e), !.active_editor = e.obj,
                              !.disk[filepath] = "skeleton", !.nEditors = @ + 1],
              NoCall)

\* a sequence without its i-th element
Without(seq, i) == SubSeq(seq, 1, i - 1) \o SubSeq(seq, i + 1, Len(seq))

\* close_editor that leaves active_editor alone
close_editor_KeepActive(s, filepath, response) ==
    LET i == EditorAt(s.editors, filepath) IN
    IF i = 0 THEN SOut(FALSE, s, NoCall)
    ELSE IF s.editors[i].modified /\ response = "y"
    THEN SOut(FALSE, s,
              [name |-> "save_file", id |-> NoId, err |-> "TypeError",
               why |-> "raise"])
    ELSE SOut(TRUE, [s EXCEPT !.editors = Without(@, i)], NoCall)

\* Session.close_editor(filepath); response is what input() returns when the
\* editor is modified.  On "y" editor.save_file() is called without its
\* filepath argument: TypeError, and the method is left before the del.
close_editor(s, filepath, response) ==
    LET i == EditorAt(s.editors, filepath)
        rest == Without(s.editors, i)
    IN IF i = 0 THEN SOut(FALSE, s, NoCall)
       ELSE IF s.editors[i].modified /\ response = "y"
       THEN SOut(FALSE, s,
                 [name |-> "save_file", id |-> NoId, err |-> "TypeError",
                  why |-> "raise"])
       ELSE SOut(TRUE,
                 [s EXCEPT !.editors = rest,
                           !.active_editor =
                               IF s.active_editor = s.editors[i].obj
                               THEN IF rest = <<>> THEN Null ELSE rest[1].obj
                               ELSE s.active_editor],
                 NoCall)

\* Session.switch_editor(filepath)
switch_editor(s, filepath) ==
    LET i == EditorAt(s.editors, filepath) IN
    IF i = 0 THEN SOut(FALSE, s, NoCall)
    ELSE SOut(TRUE, [s EXCEPT !.active_editor = s.editors[i].obj], NoCall)

\* session.active_editor.execute_command(EditTextCommand(document, 'body', 'x'))
active_execute(s) ==
    LET i == CHOOSE j \in 1..Len(s.editors) : s.editors[j].obj = s.active_editor
        d == s.editors[i].document
        r == CmdExecute(EditTextCommand(d, "body", "x"), d)
    IN IF r.ok
       THEN SOut(TRUE, [s EXCEPT !.editors[i].document = r.d,
                                 !.editors[i].modified = TRUE], NoCall)
       ELSE SOut(FALSE, s, NoCall)

\* the bookkeeping of a call on the Session
SessionCall(name, args, out) ==
    /\ pre' = Snapshot
    /\ lastOp' = name
    /\ lastKind' = ""
    /\ lastCall' = out.call
    /\ lastArgs' = args
    /\ ret' = out.ok
    /\ editors' = out.s.editors
    /\ active_editor' = out.s.active_editor
    /\ disk' = out.s.disk
    /\ nEditors' = out.s.nEditors
    /\ UNCHANGED <<doc, undo_stack, redo_stack, modified, held, nCmds, nAlloc,
                   applied, nCalls, undone, saved>>

SessionLoad ==
    /\ nEditors < MaxEditors
    /\ \E p \in SessionPaths : \E out \in {Session_load_file(Sess, p)} :
           SessionCall("Session.load_file", <<p>>, out)

SessionCreate ==
    /\ nEditors < MaxEditors
    /\ \E p \in SessionPaths : \E out \in {create_new_file(Sess, p)} :
           SessionCall("Session.create_new_file", <<p>>, out)

SessionClose ==
    \E p \in SessionPaths, response \in {"y", "n"} :
        \E out \in {close_editor(Sess, p, response)} :
           SessionCall("Session.close_editor", <<p>>, out)

SessionSwitch ==
    \E p \in SessionPaths : \E out \in {switch_editor(Sess, p)} :
           SessionCall("Session.switch_editor", <<p>>, out)

SessionEdit ==
    /\ active_editor # Null
    /\ \E i \in 1..Len(editors) : editors[i].obj = active_editor
    /\ \E out \in {active_execute(Sess)} :
           SessionCall("Editor.execute_command", <<>>, out)

NextSession ==
    SessionLoad \/ SessionCreate \/ SessionClose \/ SessionSwitch \/ SessionEdit

SpecSession == Init /\ [][NextSession]_vars

\* ------------------------------------------------- a history unwound whole
\* n commands are constructed and executed one after the other, each with
\* success, and then undo() is called until the undo stack is empty
UnwindExecute ==
    /\ lastOp \in {"init", "execute"}
    /\ RunCommand
    /\ ret'

UnwindUndo ==
    /\ undo_stack # <<>>
    /\ Undo

NextUnwind == UnwindExecute \/ UnwindUndo

SpecUnwind == Init /\ [][NextUnwind]_vars

\* ------------------------------------------------------------------- claims
Top(s) == s[Len(s)]

\* the call made last was Editor.undo on a non-empty stack, invoked on exactly
\* the document the popped command's execute had produced
UndoRightAfterExecute ==
    /\ lastOp = "undo"
    /\ pre.undo_stack # <<>>
    /\ pre.doc = Top(pre.undo_stack).after

\* C1: a command whose execute succeeded and that is undone on the document
\* its execute produced is undone successfully, and the tree (node set, ids,
\* direct text, sibling order) is again the tree the execute started from.
C1_UndoRestores ==
    UndoRightAfterExecute =>
        /\ ret
        /\ Tree(doc) = Tree(Top(pre.undo_stack).before)

\* the nodes of the tree of d
TreeNodes(d) == IF d.root = Null THEN {} ELSE SubtreeNodes(d.node, d.root)

\* the last call left the document's tree and index as it found them
DocUnchanged == Tree(doc) = Tree(pre.doc) /\ doc.id_map = pre.doc.id_map

\* the last call left both stacks and the editor's flag as it found them
StacksUnchanged ==
    /\ undo_stack = pre.undo_stack
    /\ redo_stack = pre.redo_stack
    /\ modified = pre.modified

\* C2: after a successful execute_command the redo stack is empty, and a
\* redo() called with an empty redo stack (so any redo() called right after a
\* successful execute_command) returns False and changes nothing.
C2_RedoInvalidated ==
    /\ (lastOp = "execute" /\ ret) => redo_stack = <<>>
    /\ (lastOp = "redo" /\ pre.redo_stack = <<>>) =>
           (~ret /\ doc = pre.doc /\ StacksUnchanged)

\* a fresh edit was executed while redo history existed
C2_Witness ==
    /\ lastOp = "execute"
    /\ ret
    /\ pre.redo_stack # <<>>
    /\ redo_stack = <<>>

\* C3: a failed Editor.undo() leaves the undo stack (the popped command back
\* on top), the redo stack and the modified flag as they were; with an empty
\* undo stack it returns False and changes nothing.
C3_FailedUndoKeepsHistory ==
    /\ (lastOp = "undo" /\ ~ret) => StacksUnchanged
    /\ (lastOp = "undo" /\ pre.undo_stack = <<>>) =>
           (~ret /\ doc = pre.doc /\ StacksUnchanged)

\* the undo of a command on the stack failed
C3_Witness ==
    /\ lastOp = "undo"
    /\ ~ret
    /\ pre.undo_stack # <<>>
    /\ Top(undo_stack) = Top(pre.undo_stack)

\* the constructor arguments of a command: what tells command objects apart
Args(c) == <<c.kind, c.tag_name, c.id_value, c.target, c.text>>

\* C4: Editor.redo() returns False and changes nothing on an empty redo
\* stack; otherwise the top command is popped and executed: on success it is
\* pushed onto the undo stack and the flag is True, on failure it is back on
\* top of the redo stack and both stacks and the flag are as before.
C4_Redo ==
    lastOp = "redo" =>
        IF pre.redo_stack = <<>> THEN ~ret /\ doc = pre.doc /\ StacksUnchanged
        ELSE IF ret
        THEN /\ Len(undo_stack) = Len(pre.undo_stack) + 1
             /\ SubSeq(undo_stack, 1, Len(pre.undo_stack)) = pre.undo_stack
             /\ Args(Top(undo_stack)) = Args(Top(pre.redo_stack))
             /\ redo_stack = SubSeq(pre.redo_stack, 1, Len(pre.redo_stack) - 1)
             /\ modified = TRUE
        ELSE /\ undo_stack = pre.undo_stack
             /\ Len(redo_stack) = Len(pre.redo_stack)
             /\ \A i \in 1..Len(redo_stack) : Args(redo_stack[i]) = Args(pre.redo_stack[i])
             /\ modified = pre.modified

\* a redo popped a command whose execute() failed: the command is back on top
\* of the redo stack
C4_Witness ==
    /\ lastOp = "redo"
    /\ ~ret
    /\ pre.redo_stack # <<>>
    /\ Args(Top(redo_stack)) = Args(Top(pre.redo_stack))

\* C5: a failed Editor.execute_command leaves both stacks and the flag as
\* they were.
C5_FailedExecuteKeepsState ==
    (lastOp = "execute" /\ ~ret) => StacksUnchanged

\* an execute_command failed in an editor that holds history
C5_Witness ==
    /\ lastOp = "execute"
    /\ ~ret
    /\ pre.undo_stack # <<>>
    /\ undo_stack = pre.undo_stack

\* C6: whenever a command's execute() returns False (called by
\* execute_command or by redo), the tree and the index are as before the call.
C6_AllOrNothing ==
    (lastOp \in {"execute", "redo"} /\ lastKind # "" /\ ~ret) => DocUnchanged

\* an execute failed because the document primitive raised
C6_Witness ==
    /\ lastOp = "execute"
    /\ ~ret
    /\ lastCall.name \in {"insert_node", "append_node", "delete_node", "edit_node_id"}
    /\ lastCall.err # ""

\* C7: no two distinct nodes of the tree have the same id.
C7_UniqueIds ==
    \A x, y \in TreeNodes(doc) : x # y => doc.node[x].id # doc.node[y].id

\* C8: insert_node / append_node given a node whose id is the id of a node of
\* the tree that is not a required tag raises DuplicateIdError and leaves the
\* tree, the index and the node count unchanged.
C8_DuplicateRejected ==
    (/\ lastCall.name \in {"insert_node", "append_node"}
     /\ \E x \in TreeNodes(pre.doc) :
            /\ pre.doc.node[x].id = lastCall.id
            /\ pre.doc.node[x].tag \notin REQUIRED_TAGS)
    => /\ lastCall.err = "DuplicateIdError"
       /\ DocUnchanged
       /\ Cardinality(TreeNodes(doc)) = Cardinality(TreeNodes(pre.doc))

\* C9: delete_node on an id that resolves to a node tagged html, head, title
\* or body raises at the protected-tag check; the node is still in the tree
\* and still resolves, and the document is unchanged.
C9_ProtectedDelete ==
    LET h == get_node_by_id(pre.doc, lastCall.id) IN
    (/\ lastCall.name = "delete_node"
     /\ h # Null
     /\ pre.doc.node[h].tag \in REQUIRED_TAGS)
    => /\ lastCall.err = "InvalidNodeError"
       /\ lastCall.why = "protected"
       /\ ~ret
       /\ doc = pre.doc
       /\ h \in TreeNodes(doc)
       /\ get_node_by_id(doc, lastCall.id) = h

\* delete_node refused a required-tag node whose id is no longer its tag name
C9_Witness ==
    /\ lastCall.name = "delete_node"
    /\ lastCall.why = "protected"
    /\ lastCall.id \notin REQUIRED_TAGS
    /\ get_node_by_id(doc, lastCall.id) # Null

\* C10: the root is tagged html, exactly one of its children is a head and
\* exactly one is a body, and that head has a title child.
C10_Skeleton ==
    /\ doc.root # Null
    /\ doc.node[doc.root].tag = "html"
    /\ LET kids == doc.node[doc.root].children
           heads == {i \in 1..Len(kids) : doc.node[kids[i]].tag = "head"}
           bodies == {i \in 1..Len(kids) : doc.node[kids[i]].tag = "body"}
       IN /\ Cardinality(heads) = 1
          /\ Cardinality(bodies) = 1
          /\ \A i \in heads :
                 \E j \in 1..Len(doc.node[kids[i]].children) :
                     doc.node[doc.node[kids[i]].children[j]].tag = "title"

\* ------------------------------------------------ claims on HTMLDocument
\* the last direct call was name(...) and returned normally
Returned(name) == lastOp = "call" /\ lastCall.name = name /\ lastCall.err = ""

\* C11: right after insert_node / append_node of node n returned,
\* get_node_by_id(n.id) is n; right after delete_node(id) returned,
\* get_node_by_id(id) is None.
C11_LookupFollowsMutation ==
    /\ (Returned("insert_node") \/ Returned("append_node")) =>
           get_node_by_id(doc, doc.node[lastArgs[1]].id) = lastArgs[1]
    /\ Returned("delete_node") => get_node_by_id(doc, lastArgs[1]) = Null

\* a node with a child was deleted and its id no longer resolves
C11_Witness ==
    /\ Returned("delete_node")
    /\ get_node_by_id(pre.doc, lastArgs[1]) # Null
    /\ pre.doc.node[get_node_by_id(pre.doc, lastArgs[1])].children # <<>>
    /\ get_node_by_id(doc, lastArgs[1]) = Null

\* C14: after edit_node_id(old_id, new_id) returned, old_id no longer
\* resolves, new_id resolves to the node old_id resolved to and that node's id
\* is new_id; every other index entry, every other node, the shape of the
\* tree and all text are as before.
C14_RenameMovesEntry ==
    Returned("edit_node_id") =>
        LET o == lastArgs[1]
            n == lastArgs[2]
            h == get_node_by_id(pre.doc, o)
        IN /\ h # Null
           /\ get_node_by_id(doc, o) = Null
           /\ get_node_by_id(doc, n) = h
           /\ doc.node[h].id = n
           /\ DOMAIN doc.id_map = (DOMAIN pre.doc.id_map \ {o}) \cup {n}
           /\ \A k \in DOMAIN pre.doc.id_map \ {o} : doc.id_map[k] = pre.doc.id_map[k]
           /\ doc.node = [pre.doc.node EXCEPT ![h].id = n]
           /\ doc.root = pre.doc.root

\* a node that has a child was renamed
C14_Witness ==
    /\ Returned("edit_node_id")
    /\ doc.node[get_node_by_id(doc, lastArgs[2])].children # <<>>
    /\ get_node_by_id(doc, lastArgs[1]) = Null

\* the last direct call was edit_node_id(old_id, new_id)
RenameCalled == lastOp = "call" /\ lastCall.name = "edit_node_id"

C16_NonEmptyIds ==
    \A x \in TreeNodes(doc) :
        doc.node[x].tag \notin REQUIRED_TAGS => doc.node[x].id # ""

\* C20: a primitive that raises leaves the tree, the index and the
\* document's modified flag as they were; the flag goes from False to True only
\* in a call that returns.
C20_FailedPrimitiveKeepsDocument ==
    lastOp = "call" =>
        /\ lastCall.err # "" => doc = pre.doc
        /\ (doc.modified /\ ~pre.doc.modified) => lastCall.err = ""

\* edit_node_text was refused on an unmodified document
C20_Witness ==
    /\ lastOp = "call"
    /\ lastCall.name = "edit_node_text"
    /\ lastCall.err = "InvalidNodeError"
    /\ ~pre.doc.modified
    /\ ~doc.modified

\* ----------------------------------------------------- claims on commands
\* C12: the undo of a DeleteCommand, called on the document its execute
\* left, succeeds and puts the deleted node back under its former parent with
\* that parent's children list exactly as it was before the delete.
C12_DeleteUndoPosition ==
    (UndoRightAfterExecute /\ lastKind = "Delete") =>
        LET c == Top(pre.undo_stack)
            p == c.before.node[c.node].parent
        IN /\ ret
           /\ doc.node[c.node].parent = p
           /\ doc.node[p].children = c.before.node[p].children

\* C13: undo() called on a command object that is not applied (never
\* executed, last execute failed, or already undone) returns False and leaves
\* the tree and the index as they were.
C13_UndoOnlyWhenApplied ==
    (lastOp = "c.undo" /\ ~pre.applied) => (~ret /\ DocUnchanged)

\* ------------------------------------------ claims on the Editor with files
\* C17: after Editor.init_empty_document and after Editor.load_file, whether
\* it returned True or False, both stacks are empty and the modified flag is
\* False.
C17_ResetClearsHistory ==
    lastOp \in {"init_empty_document", "load_file"} =>
        /\ undo_stack = <<>>
        /\ redo_stack = <<>>
        /\ modified = FALSE

\* a load failed in an editor that held undo and redo history
C17_Witness ==
    /\ lastOp = "load_file"
    /\ ~ret
    /\ pre.undo_stack # <<>>
    /\ pre.redo_stack # <<>>
    /\ undo_stack = <<>>
    /\ redo_stack = <<>>

\* C18: the flag is True after every successful execute_command and every
\* successful redo, equals "the undo stack is non-empty" after every
\* successful undo, and is False after every successful save_file.
C18_ModifiedFlag ==
    /\ (lastOp \in {"execute", "redo"} /\ ret) => modified = TRUE
    /\ (lastOp = "undo" /\ ret) => modified = (undo_stack # <<>>)
    /\ (lastOp = "save_file" /\ ret) => modified = FALSE

\* a save succeeded in an editor with unsaved edits
C18_Witness ==
    /\ lastOp = "save_file"
    /\ ret
    /\ pre.modified
    /\ undo_stack # <<>>
    /\ ~modified

\* an exception left Editor.undo or Editor.redo, which have no try block
Propagated == lastOp \in {"undo", "redo"} /\ lastCall.err = "NotImplementedError"

\* the commands of a stack, oldest first
StackArgs(stack) == [i \in 1..Len(stack) |-> Args(stack[i])]

\* C19: execute_command, undo and redo return a bool and let no exception
\* out, whatever command they run; when the result is False both stacks hold
\* the commands they held before the call.
C19_EngineNeverRaises ==
    lastOp \in {"execute", "undo", "redo"} =>
        /\ ~Propagated
        /\ ~ret => /\ StackArgs(undo_stack) = StackArgs(pre.undo_stack)
                   /\ StackArgs(redo_stack) = StackArgs(pre.redo_stack)

\* ------------------------------------- claims on the primitives' effects
\* children list of node p, in the document before the call and after it
KidsBefore(p) == pre.doc.node[p].children
KidsAfter(p) == doc.node[p].children

\* C21: after insert_node(n, target_id) returned, n stands in the children
\* list of the target's parent at the index the target had, the target follows
\* it, and the children that were there keep their order; after
\* append_node(n, parent_id) returned, n is the last child of the parent and the
\* children before it are the former list; in both cases n.parent is that
\* parent.
C21_Placement ==
    /\ Returned("insert_node") =>
           LET n == lastArgs[1]
               t == get_node_by_id(pre.doc, lastArgs[2])
               p == pre.doc.node[t].parent
               i == IndexOf(KidsBefore(p), t)
           IN /\ t # Null /\ p # Null /\ i # 0
              /\ Len(KidsAfter(p)) = Len(KidsBefore(p)) + 1
              /\ KidsAfter(p)[i] = n
              /\ KidsAfter(p)[i + 1] = t
              /\ \A j \in 1..(i - 1) : KidsAfter(p)[j] = KidsBefore(p)[j]
              /\ \A j \in i..Len(KidsBefore(p)) : KidsAfter(p)[j + 1] = KidsBefore(p)[j]
              /\ doc.node[n].parent = p
    /\ Returned("append_node") =>
           LET n == lastArgs[1]
               p == get_node_by_id(pre.doc, lastArgs[2])
           IN /\ p # Null
              /\ KidsAfter(p) = KidsBefore(p) \o <<n>>
              /\ doc.node[n].parent = p

\* a node was inserted before a target that is neither the first nor the only
\* child of its parent
C21_Witness ==
    /\ Returned("insert_node")
    /\ LET t == get_node_by_id(pre.doc, lastArgs[2])
           p == pre.doc.node[t].parent
       IN /\ IndexOf(KidsBefore(p), t) > 1
          /\ Len(KidsAfter(p)) >= 3
          /\ KidsAfter(p)[IndexOf(KidsBefore(p), t)] = lastArgs[1]

\* index keys of document d that map to node x
KeysOf(d, x) == {k \in DOMAIN d.id_map : d.id_map[k] = x}

\* C22: after delete_node(id) returned, the node id resolved to is detached
\* from its parent, no id of a node of its subtree is in the index, and every
\* node outside the subtree has the index entries, the parent, the text and
\* the children it had, the former parent's list lacking only the deleted node.
C22_DeleteDetachesSubtree ==
    Returned("delete_node") =>
        LET h == get_node_by_id(pre.doc, lastArgs[1])
            p == pre.doc.node[h].parent
            S == SubtreeNodes(pre.doc.node, h)
        IN /\ h # Null /\ p # Null
           /\ doc.node[h].parent = Null
           /\ \A x \in S : doc.node[x].id \notin DOMAIN doc.id_map
           /\ \A x \in (1..Len(pre.doc.node)) \ S :
                 /\ KeysOf(doc, x) = KeysOf(pre.doc, x)
                 /\ doc.node[x].parent = pre.doc.node[x].parent
                 /\ doc.node[x].text = pre.doc.node[x].text
                 /\ doc.node[x].id = pre.doc.node[x].id
                 /\ KidsAfter(x) = SelectSeq(KidsBefore(x), LAMBDA y : y # h)

\* the index of d holds exactly the ids of the nodes of d's tree, each
\* mapped to a node of the tree that has that id
IndexExact(d) ==
    /\ DOMAIN d.id_map = {d.node[x].id : x \in TreeNodes(d)}
    /\ \A k \in DOMAIN d.id_map :
          d.id_map[k] \in TreeNodes(d) /\ d.node[d.id_map[k]].id = k

\* the last editor call replaced the root of the document: init_empty_document,
\* load_file, or a successful execute of an InitCommand or a ReadCommand
RootReplaced ==
    \/ lastOp \in {"init_empty_document", "load_file"}
    \/ lastOp = "execute" /\ lastKind \in {"Init", "Read"} /\ ret

\* C23: right after the root was replaced wholesale the index holds exactly
\* the ids of the nodes of the new tree, each mapped to its node, and no id
\* that only the previous tree had.
C23_IndexRebuiltOnReplace == RootReplaced => IndexExact(doc)

\* the last call rebuilt the index over the whole tree
Rebuilt == lastOp = "tree" /\ lastCall.name \in {"set_root", "_update_id_map"}

\* two distinct nodes of d's tree have the same id
HasDuplicateIds(d) ==
    \E x, y \in TreeNodes(d) : x # y /\ d.node[x].id = d.node[y].id

\* C24: a rebuild of the index (set_root, _update_id_map) over a tree in which
\* two distinct nodes have the same id raises DuplicateIdError, whatever the
\* tags of the two nodes are.
C24_RebuildRejectsDuplicates ==
    (Rebuilt /\ HasDuplicateIds(doc)) => lastCall.err = "DuplicateIdError"

\* the last direct call raised for one of the four causes: an id that does
\* not resolve, an insert before the root, a delete of a required tag, an id
\* collision
FailedFor(why) == lastOp = "call" /\ lastCall.err # "" /\ lastCall.why = why
FailedCall ==
    FailedFor("not_found") \/ FailedFor("no_parent")
        \/ FailedFor("protected") \/ FailedFor("duplicate")

\* C25: the exception class a failed mutation raises identifies its cause:
\* DuplicateIdError is raised for an id collision and for nothing else, and
\* the class raised for an unresolved id (InvalidNodeError) is raised for
\* nothing else, so that an insert before the root and a delete of a required
\* tag each report a kind of their own.
C25_ErrorKindIdentifiesCause ==
    FailedCall =>
        /\ FailedFor("duplicate") <=> lastCall.err = "DuplicateIdError"
        /\ FailedFor("not_found") <=> lastCall.err = "InvalidNodeError"

\* C26: after edit_node_text(id, new_text) returned, the node id resolved to
\* has the text new_text, and every other node's text, every id, parent and
\* children list, the index and the root are as before.
C26_RetextFrame ==
    Returned("edit_node_text") =>
        LET h == get_node_by_id(pre.doc, lastArgs[1]) IN
        /\ h # Null
        /\ doc.node[h].text = lastArgs[2]
        /\ Len(doc.node) = Len(pre.doc.node)
        /\ \A x \in 1..Len(doc.node) :
              /\ x # h => doc.node[x].text = pre.doc.node[x].text
              /\ doc.node[x].id = pre.doc.node[x].id
              /\ doc.node[x].tag = pre.doc.node[x].tag
              /\ doc.node[x].parent = pre.doc.node[x].parent
              /\ doc.node[x].children = pre.doc.node[x].children
        /\ doc.id_map = pre.doc.id_map
        /\ doc.root = pre.doc.root

\* the text of a node that has a child with a text of its own was replaced
C26_Witness ==
    /\ Returned("edit_node_text")
    /\ LET h == get_node_by_id(pre.doc, lastArgs[1]) IN
       /\ pre.doc.node[h].text # lastArgs[2]
       /\ doc.node[h].text = lastArgs[2]
       /\ \E k \in 1..Len(KidsAfter(h)) :
             /\ doc.node[KidsAfter(h)[k]].text # lastArgs[2]
             /\ doc.node[KidsAfter(h)[k]].text = pre.doc.node[KidsAfter(h)[k]].text

\* ------------------------------------------------------- claims on HTMLNode
\* the last call was HTMLNode(tag, id_)
Constructed == lastOp = "tree" /\ lastCall.name = "HTMLNode"

\* the tags of CtorTags that are required tags once lower-cased
RequiredAnyCase == {"body", "BODY", "html"}

\* C27: HTMLNode(tag, id) returns a node with that id for a non-required tag
\* and a non-empty id, raises InvalidNodeError for a non-required tag and an
\* empty or missing id, and for a required tag (in either case) and no id
\* returns a node whose id is the lower-cased tag name.
C27_NodeConstruction ==
    Constructed =>
        LET h == lastArgs[1]
            tag == lastArgs[2]
            id_ == lastArgs[3]
        IN /\ (tag \notin RequiredAnyCase /\ id_ \notin {NoId, ""}) =>
                  /\ lastCall.err = ""
                  /\ Len(doc.node) = h /\ doc.node[h].id = id_
           /\ (tag \notin RequiredAnyCase /\ id_ \in {NoId, ""}) =>
                  /\ lastCall.err = "InvalidNodeError"
                  /\ doc = pre.doc
           /\ (tag \in RequiredAnyCase /\ id_ = NoId) =>
                  /\ lastCall.err = ""
                  /\ Len(doc.node) = h
                  /\ doc.node[h].id = doc.node[h].tag
                  /\ doc.node[h].tag \in REQUIRED_TAGS

\* HTMLNode('BODY') was constructed and has the id 'body'
C27_Witness ==
    /\ Constructed
    /\ lastArgs[2] = "BODY" /\ lastArgs[3] = NoId
    /\ lastCall.err = ""
    /\ doc.node[lastArgs[1]].id = "body"

\* ------------------------------------------- claims on the commands' undo
\* the call made last was Editor.undo and popped a DeleteCommand that
\* recorded a former parent which still resolves; neither recorded id is the
\* empty string and the deleted subtree passes HTMLNode.validate
DeleteUndone ==
    /\ lastOp = "undo"
    /\ pre.undo_stack # <<>>
    /\ Top(pre.undo_stack).kind = "Delete"
    /\ Top(pre.undo_stack).node # Null
    /\ Top(pre.undo_stack).parent_id \notin {NoId, ""}
    /\ Top(pre.undo_stack).next_sibling_id # ""
    /\ get_node_by_id(pre.doc, Top(pre.undo_stack).parent_id) # Null
    /\ node_validate(pre.doc.node, Top(pre.undo_stack).node)

\* C28: the undo of a DeleteCommand succeeds; it puts the deleted node
\* immediately before the recorded following sibling when that sibling's id
\* still resolves, and otherwise (none recorded, or its id no longer
\* resolves) makes it the last child of the recorded former parent.
C28_DeleteUndoFallback ==
    DeleteUndone =>
        LET c == Top(pre.undo_stack)
            n == c.node
            s == get_node_by_id(pre.doc, c.next_sibling_id)
            p == get_node_by_id(pre.doc, c.parent_id)
        IN /\ ret
           /\ IF s # Null
              THEN \E i \in 1..(Len(KidsAfter(doc.node[s].parent)) - 1) :
                      /\ KidsAfter(doc.node[s].parent)[i] = n
                      /\ KidsAfter(doc.node[s].parent)[i + 1] = s
              ELSE /\ KidsAfter(p) # <<>>
                   /\ KidsAfter(p)[Len(KidsAfter(p))] = n
                   /\ doc.node[n].parent = p

\* the text of the node id resolves to in d, NoText when it does not resolve
TextAt(d, id_) ==
    IF get_node_by_id(d, id_) = Null THEN NoText
    ELSE d.node[get_node_by_id(d, id_)].text

\* the call made last was Editor.undo and popped an EditTextCommand
TextUndone ==
    /\ lastOp = "undo"
    /\ pre.undo_stack # <<>>
    /\ Top(pre.undo_stack).kind = "EditText"

\* a held EditTextCommand has the text its node had when it was constructed
RecordedAtConstruction ==
    (lastOp = "construct" /\ lastKind = "EditText") =>
        held[1].old_text = TextAt(doc, held[1].target)

\* an undo of an EditTextCommand that recorded no text returns False and
\* changes nothing; one that returns True leaves the node with the recorded
\* text
UndoWritesRecorded ==
    TextUndone =>
        LET c == Top(pre.undo_stack) IN
        /\ c.old_text = NoText => (~ret /\ DocUnchanged)
        /\ ret => TextAt(doc, c.target) = c.old_text

\* executing the held EditTextCommand leaves its recorded text as it is
ExecuteKeepsRecorded ==
    (held # <<>> /\ held[1].kind = "EditText" /\ held' = <<>> /\ ret') =>
        Top(undo_stack').old_text = held[1].old_text

\* C29: an EditTextCommand records its node's text when it is constructed
\* (nothing when the id does not resolve then), execute does not change what
\* was recorded, and undo writes the recorded text back whatever the text
\* was right before execute; with nothing recorded undo returns False even
\* after an execute that succeeded.
C29_OldTextFromConstruction ==
    /\ [](RecordedAtConstruction /\ UndoWritesRecorded)
    /\ [][ExecuteKeepsRecorded]_vars

\* an undo wrote back a recorded text that differs from the text the
\* command's execute had replaced
C29_Witness ==
    /\ TextUndone
    /\ ret
    /\ LET c == Top(pre.undo_stack) IN
       /\ TextAt(doc, c.target) = c.old_text
       /\ TextAt(c.before, c.target) # c.old_text

\* ------------------------------------- claims on the duplicate-id rule
\* the call made last was append_node / insert_node of a new node n on a
\* document whose index was the rebuilt index of its tree, and the id given
\* resolved to a place where n can be attached
AttachTried ==
    /\ lastOp = "tree"
    /\ lastCall.name \in {"append_node", "insert_node"}
    /\ _update_id_map(pre.doc.node, pre.doc.root).ok
    /\ pre.doc.id_map = _update_id_map(pre.doc.node, pre.doc.root).m
    /\ get_node_by_id(pre.doc, lastArgs[2]) # Null
    /\ lastCall.name = "insert_node" =>
           pre.doc.node[get_node_by_id(pre.doc, lastArgs[2])].parent # Null

\* the heap with n attached where the call was to attach it
WithAttached ==
    LET n == lastArgs[1]
        t == get_node_by_id(pre.doc, lastArgs[2])
        p == pre.doc.node[t].parent
    IN IF lastCall.err = "" THEN doc.node
       ELSE IF lastCall.name = "append_node" THEN add_child(doc.node, t, n)
       ELSE [doc.node EXCEPT ![p].children = InsertAt(@, IndexOf(@, t), n),
                             ![n].parent = p]

\* C30: append_node / insert_node of n on tree T raises DuplicateIdError
\* exactly when _update_id_map over T with n attached raises
\* DuplicateIdError.
C30_OneDuplicateRule ==
    AttachTried =>
        (lastCall.err = "DuplicateIdError"
            <=> ~_update_id_map(WithAttached, pre.doc.root).ok)

\* ------------------------------------------------ claims on loading files
\* Editor.load_file caught an exception
LoadFailed == lastOp = "load_file" /\ lastCall.err # ""

\* C31: when Editor.load_file fails (file unreadable, no html root, skeleton
\* invalid, duplicate ids) it returns False, the editor holds a fresh empty
\* skeleton document, both stacks are empty and the modified flag is False:
\* the document that was open and its history are gone.
C31_FailedLoadResets ==
    LoadFailed =>
        /\ ret = FALSE
        /\ doc = create_empty_document
        /\ undo_stack = <<>>
        /\ redo_stack = <<>>
        /\ modified = FALSE

\* a file with duplicate ids was refused by an editor that held an edited
\* document and history on both stacks
C31_Witness ==
    /\ LoadFailed
    /\ lastCall.why = "duplicate"
    /\ Tree(pre.doc) # Tree(create_empty_document)
    /\ pre.undo_stack # <<>>
    /\ pre.redo_stack # <<>>
    /\ pre.modified
    /\ doc = create_empty_document

\* ------------------------------------------------------ claims on Session
LoadCalled == lastOp = "Session.load_file"

\* the path given to the last Session call was open when the call began
WasOpen == EditorAt(pre.editors, lastArgs[1]) # 0

\* the Editor.load_file of the last Session.load_file caught an exception
LoadCaught == LoadCalled /\ ~WasOpen /\ lastCall.err # ""

\* C32: Session.load_file returns True exactly when the file was loaded or was
\* already open; on an open path it only makes that editor active; when the
\* load fails it returns False, registers no editor and leaves the active
\* editor as it was.
C32_SessionLoadResult ==
    LoadCalled =>
        /\ ret <=> (WasOpen \/ lastCall.err = "")
        /\ WasOpen =>
               /\ editors = pre.editors
               /\ active_editor = pre.editors[EditorAt(pre.editors, lastArgs[1])].obj
        /\ LoadCaught =>
               /\ editors = pre.editors
               /\ active_editor = pre.active_editor

\* the active editor is one of the registered editors, or there is none
ActiveRegistered ==
    \/ active_editor = Null
    \/ \E i \in 1..Len(editors) : editors[i].obj = active_editor

\* close_editor returned True on the path of the active editor
ClosedActive ==
    /\ lastOp = "Session.close_editor"
    /\ ret
    /\ pre.active_editor = pre.editors[EditorAt(pre.editors, lastArgs[1])].obj

\* C39: the active editor is absent or registered in the session; closing the
\* active editor makes another registered editor active, or none when no
\* editor remains; switch_editor to a path that is not open returns False and
\* changes nothing.
C39_SessionInvariant ==
    /\ ActiveRegistered
    /\ \A i, j \in 1..Len(editors) :
           (editors[i].filepath = editors[j].filepath \/ editors[i].obj = editors[j].obj)
               => i = j
    /\ ClosedActive =>
           /\ EditorAt(editors, lastArgs[1]) = 0
           /\ active_editor # pre.active_editor
           /\ (editors = <<>>) <=> (active_editor = Null)
    /\ (lastOp = "Session.switch_editor" /\ ~WasOpen) =>
           /\ ~ret
           /\ editors = pre.editors
           /\ active_editor = pre.active_editor
           /\ disk = pre.disk

\* the active editor was closed while another editor was open
C39_Witness ==
    /\ ClosedActive
    /\ Len(pre.editors) = 2
    /\ active_editor # Null
    /\ active_editor = editors[1].obj

\* ------------------------------------- claims on histories of the Editor
\* the ids a caller can ask for: those of the tree, those of the index, and
\* one that no node has
AskedIds(d) ==
    {d.node[x].id : x \in TreeNodes(d)} \cup DOMAIN d.id_map \cup {"zz"}

\* get_node_by_id(id) and root.find_by_id(id) give the same node, or both None
LookupsAgree(d) ==
    \A id_ \in AskedIds(d) : get_node_by_id(d, id_) = find_by_id(d.node, d.root, id_)

\* C33: in every state reached through execute_command, undo and redo from an
\* initialized or loaded document, the keys of the index are the ids of the
\* nodes of the tree, index[id] is the node whose id is id, and so
\* get_node_by_id(id) and root.find_by_id(id) agree for every id.
C33_IndexTreeConsistent == IndexExact(doc) /\ LookupsAgree(doc)

\* undo() was called on a history of successful execute_command calls
Unwinding == lastOp = "undo" /\ pre.undo_stack # <<>>

\* the document the first command of the history found
FirstFound == redo_stack[Len(redo_stack)].before

\* C34: after n successful execute_command calls, each command constructed
\* right before it is executed, n consecutive undo() calls all return True,
\* take the commands in the reverse order of their execution, and leave the
\* tree and the index as they were at the start, with the undo stack empty.
C34_FullUnwind ==
    Unwinding =>
        /\ ret
        /\ undo_stack = SubSeq(pre.undo_stack, 1, Len(pre.undo_stack) - 1)
        /\ Args(Top(redo_stack)) = Args(Top(pre.undo_stack))
        /\ undo_stack = <<>> =>
               /\ Tree(doc) = Tree(FirstFound)
               /\ doc.id_map = FirstFound.id_map

\* where a node is: the child positions on the way down from the node that
\* has no parent
RECURSIVE PathOf(_, _, _)
PathOf(heap, h, fuel) ==
    IF fuel = 0 \/ heap[h].parent = Null THEN <<>>
    ELSE Append(PathOf(heap, heap[h].parent, fuel - 1),
                IndexOf(heap[heap[h].parent].children, h))

\* the index by content: for each key where its node is in the tree, or that
\* its node is outside the tree
IndexShape(d) ==
    [k \in DOMAIN d.id_map |->
        IF d.id_map[k] \in TreeNodes(d)
        THEN <<"in", PathOf(d.node, d.id_map[k], Len(d.node))>>
        ELSE <<"out", <<>>>>]

\* redo() was called right after an undo() that returned True
RedoneAtOnce == lastOp = "redo" /\ undone # <<>>

\* C35: when undo() succeeds and redo() follows at once, the redo succeeds and
\* the document (node set, ids, text, sibling order, index) and both stacks
\* are what they were before the undo.
C35_UndoRedoRoundTrip ==
    RedoneAtOnce =>
        /\ ret
        /\ Shape(doc) = Shape(undone[1].doc)
        /\ IndexShape(doc) = IndexShape(undone[1].doc)
        /\ StackArgs(undo_stack) = StackArgs(undone[1].undo_stack)
        /\ StackArgs(redo_stack) = StackArgs(undone[1].redo_stack)

\* the top command went from one stack to the top of the other
Moved(from, to, from0, to0) ==
    /\ from0 # <<>>
    /\ StackArgs(from) = StackArgs(SubSeq(from0, 1, Len(from0) - 1))
    /\ StackArgs(to) = Append(StackArgs(to0), Args(Top(from0)))

\* both stacks hold the commands they held when the call began
HistoryKept ==
    /\ StackArgs(undo_stack) = StackArgs(pre.undo_stack)
    /\ StackArgs(redo_stack) = StackArgs(pre.redo_stack)

\* C36: undo() and redo(), whether they succeed or fail, keep the commands of
\* the two stacks taken together: a command only moves from the top of one
\* stack to the top of the other, or stays; a successful execute_command adds
\* one command and discards the redo stack, a failed one changes nothing.
C36_HistoryConserved ==
    /\ lastOp = "undo" =>
           \/ HistoryKept
           \/ Moved(undo_stack, redo_stack, pre.undo_stack, pre.redo_stack)
    /\ lastOp = "redo" =>
           \/ HistoryKept
           \/ Moved(redo_stack, undo_stack, pre.redo_stack, pre.undo_stack)
    /\ lastOp = "execute" =>
           IF ret
           THEN /\ Len(undo_stack) = Len(pre.undo_stack) + 1
                /\ StackArgs(SubSeq(undo_stack, 1, Len(pre.undo_stack)))
                       = StackArgs(pre.undo_stack)
                /\ redo_stack = <<>>
           ELSE HistoryKept

\* ------------------------------------------- claims on the modified flag
\* C37: whenever the editor's modified flag is False, the content of the
\* document (node set, ids, text, sibling order) is the content at the most
\* recent load, save or reset.
C37_CleanMeansSaved == ~modified => Shape(doc) = saved

\* ------------------------------------------------ claims on the node tree
\* the places (owner, position) where node h stands in a children list
Places(heap, h) ==
    {<<p, i>> \in (1..Len(heap)) \X (1..Len(heap) + 1) :
        i <= Len(heap[p].children) /\ heap[p].children[i] = h}

\* the k-th ancestor of h along the parent links (Null past the top)
RECURSIVE Up(_, _, _)
Up(heap, h, k) ==
    IF h = Null \/ k = 0 THEN h ELSE Up(heap, heap[h].parent, k - 1)

\* every node stands in at most one place, its parent link names the owner
\* of that place (no parent when it stands nowhere), and following the
\* parent links from any node ends
TreeWellFormed(d) ==
    /\ \A h \in 1..Len(d.node) :
          /\ Cardinality(Places(d.node, h)) <= 1
          /\ \A pl \in Places(d.node, h) : d.node[h].parent = pl[1]
          /\ Places(d.node, h) = {} => d.node[h].parent = Null
          /\ Up(d.node, h, Len(d.node)) = Null
    /\ d.root # Null => d.node[d.root].parent = Null

\* C38: in every reachable state each node other than the root stands
\* exactly once in exactly one children list, its parent link names the owner
\* of that list, the root and every detached node have no parent, and the
\* parent links contain no cycle.
C38_TreeWellFormed == TreeWellFormed(doc)

====
